---- MODULE Spec2Model ----
(***************************************************************************)
(* Authentication and session core of the finance-tracking backend:        *)
(* register, login with failed-login lockout, logout, refresh-token and    *)
(* profile update (src/routes/auth.js), the token helpers and gates        *)
(* (src/middlewares/auth.js) and the response envelope                     *)
(* (src/utils/response.js).                                                *)
(*                                                                         *)
(* Every request is a process.  A handler is split at the instants at      *)
(* which the database executes one of its statements: the synchronous code *)
(* around a statement belongs to the same step, so that two requests       *)
(* interleave exactly where the awaits of the handlers let them.           *)
(***************************************************************************)
EXTENDS Integers, Sequences, FiniteSets, TLC

----------------------------------------------------------------------------
(* Bounds of the model *)

MaxProcs == 2
MaxUsers == 2
MaxTokens == 2
MaxNow == 1
MaxRun == 6
MaxTypes == 1
MaxRecords == 1
MaxHistory == 2

Procs == 1..MaxProcs

(* Inputs of the requests.  "" is a missing (falsy) field. *)
Usernames == {"alice", "bob"}
Emails == {"alice@x.com", "bob@x.com"}
Passwords == {"Secr3t!", "guess"}
RegisterPasswords == {"Secr3t!"}
Missing == ""

----------------------------------------------------------------------------
(* Program constants and configuration *)

MAX_FAILED_LOGIN == 5

(* TTLs in seconds.  The code reads them from the environment            *)
(* (process.env.ACCESS_TOKEN_EXPIRES_IN, ...) and falls back to 86400,     *)
(* 604800 and 2592000; the model runs a deployment that sets them to 1, 1  *)
(* and 2, which keeps their order (short <= long, access <= short) and     *)
(* lets the clock pass every one of them.                                  *)
ACCESS_TOKEN_EXPIRES_IN == 1
REFRESH_TOKEN_EXPIRES_IN == 1
REFRESH_TOKEN_EXPIRES_IN_REMEMBER == 2

ACCESS_TOKEN_SECRET == "access_secret"

----------------------------------------------------------------------------
(* Response envelope, src/utils/response.js *)

MESSAGE_MAP ==
  [ SUCCESS |-> "operation succeeded",
    REGISTER_SUCCESS |-> "registered",
    LOGIN_SUCCESS |-> "logged in",
    LOGOUT_SUCCESS |-> "logged out",
    UPDATE_SUCCESS |-> "updated",
    GET_SUCCESS |-> "fetched",
    USERNAME_OR_EMAIL_REQUIRED |-> "username, email and password are required",
    PASSWORD_REQUIRED |-> "username and password are required",
    USERNAME_OR_PASSWORD_ERROR |-> "wrong username or password",
    USERNAME_EXISTS |-> "username is taken",
    EMAIL_EXISTS |-> "email is taken",
    USERNAME_OR_EMAIL_EXISTS |-> "username or email already exists",
    ACCOUNT_DISABLED |-> "account is disabled, contact the administrator",
    ACCOUNT_LOCKED |-> "account is locked, retry later or contact the administrator",
    INVALID_EMAIL_FORMAT |-> "email format is invalid",
    INVALID_USERNAME_FORMAT |-> "username may only contain letters, digits and underscore",
    USERNAME_LENGTH_INVALID |-> "username must have 3 to 50 characters",
    NO_FIELDS_TO_UPDATE |-> "provide at least one field to update",
    USER_NOT_FOUND |-> "user does not exist",
    UNAUTHORIZED |-> "not authenticated, log in first",
    FORBIDDEN |-> "no permission",
    NOT_FOUND |-> "resource does not exist",
    INTERNAL_SERVER_ERROR |-> "internal server error",
    RECORD_REQUIRED_FIELDS |-> "type_id, amount, category_id and occurred_at are required",
    RECORD_AMOUNT_INVALID |-> "amount must be greater than 0",
    RECORD_NOT_FOUND |-> "record does not exist",
    RECORD_TYPE_REQUIRED_FIELDS |-> "type code and name are required",
    RECORD_TYPE_NOT_FOUND |-> "record type does not exist",
    RECORD_TYPE_CODE_EXISTS |-> "type code already exists",
    INVALID_PARAMS |-> "request parameters are invalid" ]

NoCustom == ""
NoData == [none |-> TRUE]
NoCookie == [cookie |-> "unset"]
ClearedCookie == [cookie |-> "cleared"]

getMessage(code, customMessage) ==
  IF customMessage # NoCustom THEN customMessage
  ELSE IF code \in DOMAIN MESSAGE_MAP THEN MESSAGE_MAP[code]
  ELSE "unknown error"

(* A response: HTTP status, body {code, message, data} and the two cookies *)
(* the response sets or clears.                                            *)
Response(http, code, message, data) ==
  [ http |-> http, code |-> code, message |-> message, data |-> data,
    access_token |-> NoCookie, refresh_token |-> NoCookie ]

success(messageCode, data, customMessage) ==
  Response(200, 0, getMessage(messageCode, customMessage), data)

(* Faulty variant: a business failure is sent as a client error. *)
fail_ClientError(messageCode) ==
  Response(400, 400, getMessage(messageCode, NoCustom), NoData)

fail(messageCode) ==
  Response(200, 0 - 1, getMessage(messageCode, NoCustom), NoData)

(* Faulty variant: a transport error carries the business-failure code. *)
httpError_BusinessCode(httpStatus, messageCode, customMessage) ==
  Response(httpStatus, 0 - 1, getMessage(messageCode, customMessage), NoData)

httpError(httpStatus, messageCode, customMessage) ==
  Response(httpStatus, httpStatus, getMessage(messageCode, customMessage), NoData)

NoResponse == [http |-> 0]

----------------------------------------------------------------------------
(* Token codec, src/middlewares/auth.js *)

(* bcrypt: a hash remembers the password it was made of, and compare       *)
(* re-derives it; the salt is observed by nothing.                         *)
bcrypt_hash(password) == [alg |-> "bcrypt", of |-> password]

bcrypt_compare(password, hash) == hash.alg = "bcrypt" /\ hash.of = password

(* sha256 of the raw refresh secret: deterministic and injective here. *)
hashToken(token) == <<"sha256", token>>

(* jwt.sign(payload, secret, {expiresIn}) at time t. *)
generateAccessToken(payload, t) ==
  [ sub |-> payload.sub, username |-> payload.username, role |-> payload.role,
    exp |-> t + ACCESS_TOKEN_EXPIRES_IN, key |-> ACCESS_TOKEN_SECRET ]

(* A token that no call of generateAccessToken produced. *)
ForgedToken ==
  [ sub |-> 1, username |-> "alice", role |-> "admin",
    exp |-> MaxNow + ACCESS_TOKEN_EXPIRES_IN + 1, key |-> "forged" ]

(* Faulty variant: only the access cookie is set. *)
setAuthCookies_AccessOnly(res, accessToken, refreshTokenRaw) ==
  [res EXCEPT !.access_token = [cookie |-> "set", value |-> accessToken]]

setAuthCookies(res, accessToken, refreshTokenRaw) ==
  [res EXCEPT !.access_token = [cookie |-> "set", value |-> accessToken],
              !.refresh_token = [cookie |-> "set", value |-> refreshTokenRaw]]

clearAuthCookies(res) ==
  [res EXCEPT !.access_token = ClearedCookie, !.refresh_token = ClearedCookie]

----------------------------------------------------------------------------
(* State *)

VARIABLES
  users,                \* table users: sequence of rows, id = position
  user_refresh_tokens,  \* table user_refresh_tokens (the refresh ledger)
  now,                  \* the clock, in seconds
  minted,               \* access tokens signed so far (what a client can hold)
  pc,                   \* per request process: position in its handler
  req,                  \* per request process: the request (body, cookies)
  loc,                  \* per request process: the handler's local variables
  last,                 \* the response being sent, with its request
  run,                  \* history: per user, logins since registration/success
  fs_record_types,      \* table fs_record_types: sequence of rows, id = position
  fs_records,           \* table fs_records: sequence of rows, id = position
  fs_record_history     \* table fs_record_history, in insertion order

vars == <<users, user_refresh_tokens, now, minted, pc, req, loc, last, run,
          fs_record_types, fs_records, fs_record_history>>

db == <<users, user_refresh_tokens>>

(* The tables of the bookkeeping routes. *)
book == <<fs_record_types, fs_records, fs_record_history>>

(* The empty result of a user lookup, and the columns the lookup of login *)
(* selects from a row.                                                     *)
NullUser ==
  [ id |-> 0, username |-> Missing, email |-> Missing,
    password_hash |-> [alg |-> "none", of |-> Missing],
    role |-> "user", status |-> 1, failed_login_count |-> 0, is_deleted |-> 0 ]

LoginColumns(row) ==
  [ id |-> row.id, username |-> row.username, email |-> row.email,
    password_hash |-> row.password_hash, role |-> row.role,
    status |-> row.status, failed_login_count |-> row.failed_login_count,
    is_deleted |-> row.is_deleted ]

NoReq == [op |-> "none"]
NoLoc == [user |-> NullUser]
NoLast == [req |-> NoReq, loc |-> NoLoc, res |-> NoResponse, at |-> "none"]

(* History of the logins on one account: origin is how the account last    *)
(* got a counter of 0 ("zero": it started with 0, "register", "success",   *)
(* or "unknown"), wrong the number of wrong-password login requests made   *)
(* on the account since then.  prior is the history a login found.          *)
NoRun == [origin |-> "unknown", wrong |-> 0]

UserIds == 1..MaxUsers

LiveIds == 1..Len(users)

----------------------------------------------------------------------------
(* Initial state: the server starts on a database that is empty or holds   *)
(* one account, alice, in one of the states an account can be in: an       *)
(* administrator; a user whose failed-login counter has passed the         *)
(* threshold; a disabled user with the counter below, at or above the      *)
(* threshold; a soft-deleted user.                                         *)

SeedUser(role, status, deleted, count) ==
  [ id |-> 1, username |-> "alice", email |-> "alice@x.com",
    password_hash |-> bcrypt_hash("Secr3t!"),
    role |-> role, status |-> status, failed_login_count |-> count,
    is_deleted |-> deleted, last_login_at |-> 0 - 1 ]

Seeds ==
  { SeedUser("admin", 1, 0, 0),
    SeedUser("user", 1, 0, MAX_FAILED_LOGIN + 1),
    SeedUser("user", 0, 0, MAX_FAILED_LOGIN - 1),
    SeedUser("user", 0, 0, MAX_FAILED_LOGIN),
    SeedUser("user", 0, 0, MAX_FAILED_LOGIN + 1),
    SeedUser("user", 1, 1, 0) }

Init ==
  /\ \/ users = <<>>
     \/ \E seed \in Seeds : users = <<seed>>
  /\ user_refresh_tokens = <<>>
  /\ now = 0
  /\ minted = {}
  /\ pc = [p \in Procs |-> "idle"]
  /\ req = [p \in Procs |-> NoReq]
  /\ loc = [p \in Procs |-> NoLoc]
  /\ last = NoLast
  /\ fs_record_types = <<>>
  /\ fs_records = <<>>
  /\ fs_record_history = <<>>
  /\ run = [u \in UserIds |->
              IF u \in 1..Len(users) /\ users[u].failed_login_count = 0
                THEN [origin |-> "zero", wrong |-> 0]
                ELSE NoRun]

----------------------------------------------------------------------------
(* Database statements *)

(* SELECT ... FROM users WHERE username = ? LIMIT 1: no ORDER BY, so any   *)
(* one matching row may be returned; NullUser stands for the empty result. *)
SelectUserByUsername(username) ==
  LET hits == {i \in LiveIds : users[i].username = username}
  IN  IF hits = {} THEN {NullUser} ELSE {LoginColumns(users[i]) : i \in hits}

(* Faulty variant: the UPDATE of a failed login is not issued. *)
IncrementFailed_Skipped(id) ==
  users

(* Faulty variant: read, add, write back.  The write of a login is lost   *)
(* when another wrong-password login on the row has read the counter and  *)
(* writes after it.                                                        *)
IncrementFailed_LostUpdate(id) ==
  IF Cardinality({ q \in Procs :
        /\ pc[q] = "login_compare" /\ loc[q].user.id = id
        /\ ~bcrypt_compare(req[q].password, loc[q].user.password_hash) }) > 1
    THEN users
    ELSE [users EXCEPT ![id].failed_login_count = @ + 1]

(* Faulty variant: the UPDATE stops counting at the threshold. *)
IncrementFailed_Capped(id) ==
  [users EXCEPT ![id].failed_login_count =
                  IF @ < MAX_FAILED_LOGIN THEN @ + 1 ELSE @]

(* UPDATE users SET failed_login_count = failed_login_count + 1 WHERE id = ? *)
IncrementFailed(id) ==
  [users EXCEPT ![id].failed_login_count = @ + 1]

(* Faulty variant: a successful login stamps last_login_at and leaves the  *)
(* counter.                                                                *)
ResetFailed_KeepCount(id) ==
  [users EXCEPT ![id].last_login_at = now]

(* UPDATE users SET failed_login_count = 0, last_login_at = NOW() WHERE id = ? *)
ResetFailed(id) ==
  [users EXCEPT ![id].failed_login_count = 0, ![id].last_login_at = now]

(* createAndStoreRefreshToken: a fresh random secret, its hash stored with *)
(* the expiry of the session class.  Rows are never deleted, so the number *)
(* of rows names a secret no earlier call returned.                        *)
generateRefreshTokenRaw == Len(user_refresh_tokens) + 1

(* Faulty variant: the ledger keeps the secret itself. *)
RefreshRow_RawSecret(userId, rememberMe, refreshTokenRaw) ==
  [ user_id |-> userId, token_hash |-> <<"raw", refreshTokenRaw>>,
    remember_me |-> IF rememberMe THEN 1 ELSE 0,
    expires_at |-> now + (IF rememberMe THEN REFRESH_TOKEN_EXPIRES_IN_REMEMBER
                                        ELSE REFRESH_TOKEN_EXPIRES_IN),
    revoked |-> 0 ]

(* Faulty variant: every session gets the short TTL. *)
RefreshRow_ShortOnly(userId, rememberMe, refreshTokenRaw) ==
  [ user_id |-> userId, token_hash |-> hashToken(refreshTokenRaw),
    remember_me |-> IF rememberMe THEN 1 ELSE 0,
    expires_at |-> now + REFRESH_TOKEN_EXPIRES_IN,
    revoked |-> 0 ]

RefreshRow(userId, rememberMe, refreshTokenRaw) ==
  [ user_id |-> userId, token_hash |-> hashToken(refreshTokenRaw),
    remember_me |-> IF rememberMe THEN 1 ELSE 0,
    expires_at |-> now + (IF rememberMe THEN REFRESH_TOKEN_EXPIRES_IN_REMEMBER
                                        ELSE REFRESH_TOKEN_EXPIRES_IN),
    revoked |-> 0 ]

----------------------------------------------------------------------------
(* Request bookkeeping *)

(* The handler of p sends response r and ends.  last keeps the response,   *)
(* the request, the handler's locals and the position the handler answered *)
(* from, until Deliver has handed the response to the client.              *)
Respond(p, rq, lc, r) ==
  /\ pc' = [pc EXCEPT ![p] = "idle"]
  /\ req' = [req EXCEPT ![p] = NoReq]
  /\ loc' = [loc EXCEPT ![p] = NoLoc]
  /\ last' = [req |-> rq, loc |-> lc, res |-> r, at |-> pc[p]]

(* The handler of p awaits its next statement. *)
Goto(p, label, rq, lc) ==
  /\ pc' = [pc EXCEPT ![p] = label]
  /\ req' = [req EXCEPT ![p] = rq]
  /\ loc' = [loc EXCEPT ![p] = lc]
  /\ UNCHANGED last

(* Sessions that exist or that logins in flight are about to create. *)
TokensCommitted ==
  Len(user_refresh_tokens)
    + Cardinality({q \in Procs :
         /\ pc[q] \in {"login_compare", "login_store"}
         /\ bcrypt_compare(req[q].password, loc[q].user.password_hash)})

----------------------------------------------------------------------------
(* POST /login, src/routes/auth.js *)

(* What a handler still reads of its request and of the row it looked up  *)
(* once its checks have passed: a login reads the password and rememberMe, *)
(* and id, username, email, role and password_hash of the row; a profile   *)
(* update reads the new username and email, and id, username and email of  *)
(* the row.                                                                *)
Kept(rq) ==
  IF rq.op = "login"
    THEN [op |-> rq.op, password |-> rq.password, rememberMe |-> rq.rememberMe]
    ELSE [op |-> rq.op, username |-> rq.username, email |-> rq.email]

KeptColumns(user) ==
  [ id |-> user.id, username |-> user.username, email |-> user.email,
    role |-> user.role, password_hash |-> user.password_hash ]

(* Faulty variant: a disabled account is not turned away. *)
LoginChecks_DisabledPasses(p, rq, lc) ==
  IF rq.username = Missing \/ rq.password = Missing
    THEN Respond(p, rq, lc, fail("PASSWORD_REQUIRED"))
  ELSE IF lc.user = NullUser \/ lc.user.is_deleted = 1
    THEN Respond(p, rq, lc, fail("USERNAME_OR_PASSWORD_ERROR"))
  ELSE IF lc.user.failed_login_count >= MAX_FAILED_LOGIN
    THEN Respond(p, rq, lc, fail("ACCOUNT_LOCKED"))
  ELSE Goto(p, "login_compare", Kept(rq), [user |-> KeptColumns(lc.user)])

(* Faulty variants of the checks of login.                                 *)
(* Above: the lockout compares with > instead of >=.                       *)
LoginChecks_Above(p, rq, lc) ==
  IF rq.username = Missing \/ rq.password = Missing
    THEN Respond(p, rq, lc, fail("PASSWORD_REQUIRED"))
  ELSE IF lc.user = NullUser \/ lc.user.is_deleted = 1
    THEN Respond(p, rq, lc, fail("USERNAME_OR_PASSWORD_ERROR"))
  ELSE IF lc.user.status = 0
    THEN Respond(p, rq, lc, fail("ACCOUNT_DISABLED"))
  ELSE IF lc.user.failed_login_count > MAX_FAILED_LOGIN
    THEN Respond(p, rq, lc, fail("ACCOUNT_LOCKED"))
  ELSE Goto(p, "login_compare", Kept(rq), [user |-> KeptColumns(lc.user)])

(* Early: the lockout starts one failure early. *)
LoginChecks_Early(p, rq, lc) ==
  IF rq.username = Missing \/ rq.password = Missing
    THEN Respond(p, rq, lc, fail("PASSWORD_REQUIRED"))
  ELSE IF lc.user = NullUser \/ lc.user.is_deleted = 1
    THEN Respond(p, rq, lc, fail("USERNAME_OR_PASSWORD_ERROR"))
  ELSE IF lc.user.status = 0
    THEN Respond(p, rq, lc, fail("ACCOUNT_DISABLED"))
  ELSE IF lc.user.failed_login_count >= MAX_FAILED_LOGIN - 1
    THEN Respond(p, rq, lc, fail("ACCOUNT_LOCKED"))
  ELSE Goto(p, "login_compare", Kept(rq), [user |-> KeptColumns(lc.user)])

(* NoLockout: the lockout check is missing. *)
LoginChecks_NoLockout(p, rq, lc) ==
  IF rq.username = Missing \/ rq.password = Missing
    THEN Respond(p, rq, lc, fail("PASSWORD_REQUIRED"))
  ELSE IF lc.user = NullUser \/ lc.user.is_deleted = 1
    THEN Respond(p, rq, lc, fail("USERNAME_OR_PASSWORD_ERROR"))
  ELSE IF lc.user.status = 0
    THEN Respond(p, rq, lc, fail("ACCOUNT_DISABLED"))
  ELSE Goto(p, "login_compare", Kept(rq), [user |-> KeptColumns(lc.user)])

(* LockFirst: the lockout is checked before the status. *)
LoginChecks_LockFirst(p, rq, lc) ==
  IF rq.username = Missing \/ rq.password = Missing
    THEN Respond(p, rq, lc, fail("PASSWORD_REQUIRED"))
  ELSE IF lc.user = NullUser \/ lc.user.is_deleted = 1
    THEN Respond(p, rq, lc, fail("USERNAME_OR_PASSWORD_ERROR"))
  ELSE IF lc.user.failed_login_count >= MAX_FAILED_LOGIN
    THEN Respond(p, rq, lc, fail("ACCOUNT_LOCKED"))
  ELSE IF lc.user.status = 0
    THEN Respond(p, rq, lc, fail("ACCOUNT_DISABLED"))
  ELSE Goto(p, "login_compare", Kept(rq), [user |-> KeptColumns(lc.user)])

(* Reveal: an unknown username is answered with its own message. *)
LoginChecks_Reveal(p, rq, lc) ==
  IF rq.username = Missing \/ rq.password = Missing
    THEN Respond(p, rq, lc, fail("PASSWORD_REQUIRED"))
  ELSE IF lc.user = NullUser \/ lc.user.is_deleted = 1
    THEN Respond(p, rq, lc, fail("USER_NOT_FOUND"))
  ELSE IF lc.user.status = 0
    THEN Respond(p, rq, lc, fail("ACCOUNT_DISABLED"))
  ELSE IF lc.user.failed_login_count >= MAX_FAILED_LOGIN
    THEN Respond(p, rq, lc, fail("ACCOUNT_LOCKED"))
  ELSE Goto(p, "login_compare", Kept(rq), [user |-> KeptColumns(lc.user)])

(* Lines 193-225: field check, the user lookup and the checks made on the  *)
(* row it returned.                                                        *)
LoginChecks(p, rq, lc) ==
  IF rq.username = Missing \/ rq.password = Missing
    THEN Respond(p, rq, lc, fail("PASSWORD_REQUIRED"))
  ELSE IF lc.user = NullUser \/ lc.user.is_deleted = 1
    THEN Respond(p, rq, lc, fail("USERNAME_OR_PASSWORD_ERROR"))
  ELSE IF lc.user.status = 0
    THEN Respond(p, rq, lc, fail("ACCOUNT_DISABLED"))
  ELSE IF lc.user.failed_login_count >= MAX_FAILED_LOGIN
    THEN Respond(p, rq, lc, fail("ACCOUNT_LOCKED"))
  ELSE Goto(p, "login_compare", Kept(rq), [user |-> KeptColumns(lc.user)])

(* History: a wrong-password request on an enabled, non-deleted account.   *)
IsWrongAttempt(password, user) ==
  /\ password # Missing
  /\ user # NullUser /\ user.is_deleted = 0 /\ user.status = 1
  /\ ~bcrypt_compare(password, user.password_hash)

LoginSelect(p, username, password, rememberMe) ==
  /\ pc[p] = "idle" /\ last = NoLast
  /\ \E user \in (IF username = Missing \/ password = Missing
                     THEN {NullUser} ELSE SelectUserByUsername(username)) :
       /\ IsWrongAttempt(password, user) /\ run[user.id].origin # "unknown"
            => run[user.id].wrong < MaxRun
       /\ (user # NullUser /\ bcrypt_compare(password, user.password_hash))
            => TokensCommitted < MaxTokens
       /\ run' = IF IsWrongAttempt(password, user)
                        /\ run[user.id].origin # "unknown"
                   THEN [run EXCEPT ![user.id].wrong = @ + 1]
                   ELSE run
       /\ LoginChecks(p,
            [ op |-> "login", username |-> username, password |-> password,
              rememberMe |-> rememberMe ],
            [ user |-> user,
              prior |-> IF user = NullUser THEN NoRun ELSE run[user.id] ])
  /\ UNCHANGED <<book, db, now, minted>>

(* Faulty variant: a matching password leaves the row alone. *)
LoginUpdate_ResetDeferred(p) ==
  /\ pc[p] = "login_compare" /\ last = NoLast
  /\ LET user == loc[p].user
         passwordMatch == bcrypt_compare(req[p].password, user.password_hash)
     IN  IF ~passwordMatch
           THEN /\ users' = IncrementFailed(user.id)
                /\ Respond(p, req[p], loc[p], fail("USERNAME_OR_PASSWORD_ERROR"))
                /\ UNCHANGED run
           ELSE /\ users' = users
                /\ Goto(p, "login_store", req[p],
                        [user |-> user, overwritten |-> users[user.id]])
                /\ UNCHANGED run
  /\ UNCHANGED <<book, user_refresh_tokens, now, minted>>

(* Lines 227-252: the password comparison and the UPDATE it leads to.     *)
(* overwritten is history: the row as the UPDATE found it, which the      *)
(* handler does not read.                                                  *)
LoginUpdate(p) ==
  /\ pc[p] = "login_compare" /\ last = NoLast
  /\ LET user == loc[p].user
         passwordMatch == bcrypt_compare(req[p].password, user.password_hash)
     IN  IF ~passwordMatch
           THEN /\ users' = IncrementFailed(user.id)
                /\ Respond(p, req[p], loc[p], fail("USERNAME_OR_PASSWORD_ERROR"))
                /\ UNCHANGED run
           ELSE /\ users' = ResetFailed(user.id)
                /\ Goto(p, "login_store", req[p],
                        [user |-> user, overwritten |-> users[user.id]])
                /\ run' = [run EXCEPT ![user.id] =
                             [origin |-> "success", wrong |-> 0]]
  /\ UNCHANGED <<book, user_refresh_tokens, now, minted>>

(* Lines 254-295: access token, refresh-ledger row, cookies, answer. *)
LoginStore(p) ==
  /\ pc[p] = "login_store" /\ last = NoLast
  /\ LET user == loc[p].user
         payload == [sub |-> user.id, username |-> user.username,
                     role |-> user.role]
         accessToken == generateAccessToken(payload, now)
         remember == req[p].rememberMe
         refreshTokenRaw == generateRefreshTokenRaw
     IN  /\ user_refresh_tokens' =
              Append(user_refresh_tokens,
                     RefreshRow(user.id, remember, refreshTokenRaw))
         /\ minted' = minted \cup {accessToken}
         /\ Respond(p, req[p], [user |-> user], setAuthCookies(
                success("LOGIN_SUCCESS",
                        [user |-> [id |-> user.id, username |-> user.username,
                                   email |-> user.email, role |-> user.role]],
                        NoCustom),
                accessToken, refreshTokenRaw))
  /\ UNCHANGED <<book, users, now, run>>

(* Lines 269-274 and 296-299: the INSERT of createAndStoreRefreshToken    *)
(* throws (src/middlewares/auth.js:50-57); the catch block answers 500.   *)
(* The access token of line 260 was signed and is dropped with the        *)
(* handler's locals: no cookie is set, nobody holds it.                    *)
LoginStoreThrows(p) ==
  /\ pc[p] = "login_store" /\ last = NoLast
  /\ Respond(p, req[p], loc[p],
             httpError(500, "INTERNAL_SERVER_ERROR", NoCustom))
  /\ UNCHANGED <<book, db, now, minted, run>>

----------------------------------------------------------------------------
(* POST /register, src/routes/auth.js *)

(* SELECT ... WHERE (username = ? OR email = ?) AND is_deleted = 0 LIMIT 1 *)
SelectExisted(username, email) ==
  {i \in LiveIds : /\ users[i].username = username \/ users[i].email = email
                   /\ users[i].is_deleted = 0}

(* The unique keys of table users.  The schema is not part of the sources; *)
(* the data model states the keys: username and email are unique among the *)
(* non-deleted users.  id is the row a statement writes (0: a new row).    *)
DupEntry(id, username, email) ==
  \E i \in LiveIds \ {id} :
     /\ users[i].is_deleted = 0
     /\ users[i].username = username \/ users[i].email = email

(* Faulty variant: the new user is an administrator. *)
NewUser_Admin(username, email, password) ==
  [ id |-> Len(users) + 1, username |-> username, email |-> email,
    password_hash |-> bcrypt_hash(password),
    role |-> "admin", status |-> 1, failed_login_count |-> 0,
    is_deleted |-> 0, last_login_at |-> 0 - 1 ]

NewUser(username, email, password) ==
  [ id |-> Len(users) + 1, username |-> username, email |-> email,
    password_hash |-> bcrypt_hash(password),
    role |-> "user", status |-> 1, failed_login_count |-> 0,
    is_deleted |-> 0, last_login_at |-> 0 - 1 ]

UsersCommitted ==
  Len(users) + Cardinality({q \in Procs : pc[q] = "register_insert"})

(* Lines 81-106: field check and the pre-check for a taken name or email. *)
(* role: a field of the body that the handler does not read.               *)
RegisterSelect(p, username, email, password, role) ==
  /\ pc[p] = "idle" /\ last = NoLast
  /\ LET rq == [ op |-> "register", username |-> username, email |-> email,
                 password |-> password, role |-> role ]
     IN  IF username = Missing \/ email = Missing \/ password = Missing
           THEN Respond(p, rq, NoLoc, fail("USERNAME_OR_EMAIL_REQUIRED"))
         ELSE IF SelectExisted(username, email) # {}
           THEN \E i \in SelectExisted(username, email) :
                  IF users[i].username = username
                    THEN Respond(p, rq, NoLoc, fail("USERNAME_EXISTS"))
                    ELSE Respond(p, rq, NoLoc, fail("EMAIL_EXISTS"))
         ELSE /\ UsersCommitted < MaxUsers
              /\ Goto(p, "register_insert", rq, NoLoc)
  /\ UNCHANGED <<book, db, now, minted, run>>

(* Faulty variant: the duplicate-key error is answered like any other     *)
(* thrown error.                                                           *)
RegisterInsert_ServerError(p) ==
  /\ pc[p] = "register_insert" /\ last = NoLast
  /\ LET rq == req[p]
         row == NewUser(rq.username, rq.email, rq.password)
     IN  IF DupEntry(0, rq.username, rq.email)
           THEN /\ Respond(p, rq, NoLoc,
                           httpError(500, "INTERNAL_SERVER_ERROR", NoCustom))
                /\ UNCHANGED <<users, run>>
           ELSE /\ users' = Append(users, row)
                /\ run' = [run EXCEPT ![row.id] =
                             [origin |-> "register", wrong |-> 0]]
                /\ Respond(p, rq, NoLoc,
                     success("REGISTER_SUCCESS",
                       [user |-> [id |-> row.id, username |-> rq.username,
                                  email |-> rq.email, role |-> "user"]],
                       NoCustom))
  /\ UNCHANGED <<book, user_refresh_tokens, now, minted>>

(* Lines 108-145: the INSERT, its duplicate-key error and the answer. *)
RegisterInsert(p) ==
  /\ pc[p] = "register_insert" /\ last = NoLast
  /\ LET rq == req[p]
         row == NewUser(rq.username, rq.email, rq.password)
     IN  IF DupEntry(0, rq.username, rq.email)
           THEN /\ Respond(p, rq, NoLoc, fail("USERNAME_OR_EMAIL_EXISTS"))
                /\ UNCHANGED <<users, run>>
           ELSE /\ users' = Append(users, row)
                /\ run' = [run EXCEPT ![row.id] =
                             [origin |-> "register", wrong |-> 0]]
                /\ Respond(p, rq, NoLoc,
                     success("REGISTER_SUCCESS",
                       [user |-> [id |-> row.id, username |-> rq.username,
                                  email |-> rq.email, role |-> "user"]],
                       NoCustom))
  /\ UNCHANGED <<book, user_refresh_tokens, now, minted>>

----------------------------------------------------------------------------
(* POST /logout and POST /refresh-token, src/routes/auth.js *)

NoToken == 0
UnknownToken == MaxTokens + 1

(* The refresh cookies a client can send: none, a secret that a login      *)
(* returned, or a value that no login returned.                            *)
RefreshCookies == {NoToken, UnknownToken} \cup (1..Len(user_refresh_tokens))

(* Faulty variants of the revocation.                                      *)
(* Toggle: SET revoked = 1 - revoked, without the test of revoked.         *)
revokeRefreshToken_Toggle(refreshTokenRaw) ==
  IF refreshTokenRaw = NoToken THEN user_refresh_tokens
  ELSE [i \in 1..Len(user_refresh_tokens) |->
          IF user_refresh_tokens[i].token_hash = hashToken(refreshTokenRaw)
            THEN [user_refresh_tokens[i] EXCEPT !.revoked = 1 - @]
            ELSE user_refresh_tokens[i]]

(* AllRows: the WHERE clause lost its test of token_hash. *)
(* Faulty variant: every session of the token's user is revoked. *)
revokeRefreshToken_UserSessions(refreshTokenRaw) ==
  IF refreshTokenRaw = NoToken THEN user_refresh_tokens
  ELSE [i \in 1..Len(user_refresh_tokens) |->
          IF \E k \in 1..Len(user_refresh_tokens) :
               /\ user_refresh_tokens[k].token_hash = hashToken(refreshTokenRaw)
               /\ user_refresh_tokens[k].user_id
                    = user_refresh_tokens[i].user_id
            THEN [user_refresh_tokens[i] EXCEPT !.revoked = 1]
            ELSE user_refresh_tokens[i]]

revokeRefreshToken_AllRows(refreshTokenRaw) ==
  IF refreshTokenRaw = NoToken THEN user_refresh_tokens
  ELSE [i \in 1..Len(user_refresh_tokens) |->
          [user_refresh_tokens[i] EXCEPT !.revoked = 1]]

(* UPDATE user_refresh_tokens SET revoked = 1                              *)
(* WHERE token_hash = ? AND revoked = 0                                    *)
revokeRefreshToken(refreshTokenRaw) ==
  IF refreshTokenRaw = NoToken THEN user_refresh_tokens
  ELSE [i \in 1..Len(user_refresh_tokens) |->
          IF /\ user_refresh_tokens[i].token_hash = hashToken(refreshTokenRaw)
             /\ user_refresh_tokens[i].revoked = 0
            THEN [user_refresh_tokens[i] EXCEPT !.revoked = 1]
            ELSE user_refresh_tokens[i]]

(* The number of rows an UPDATE changed. *)
AffectedRows(before, after) ==
  Cardinality({i \in 1..Len(before) : after[i] # before[i]})

(* How the statement of a handler ends: it executes ("ok"), it throws      *)
(* before executing ("failed"), or it executes and the connection breaks   *)
(* before its result arrives, so that the await throws ("lost").           *)
QueryOutcomes == {"ok", "failed", "lost"}

(* Lines 314-331.  The try block revokes (only when a cookie is present),  *)
(* clears the cookies and answers; the catch block answers success without *)
(* clearing the cookies.                                                   *)
Logout(p, refreshTokenRaw, outcome) ==
  /\ pc[p] = "idle" /\ last = NoLast
  /\ refreshTokenRaw = NoToken => outcome = "ok"
  /\ user_refresh_tokens' = IF outcome = "failed" THEN user_refresh_tokens
                            ELSE revokeRefreshToken(refreshTokenRaw)
  /\ LET rq == [ op |-> "logout", refresh_token |-> refreshTokenRaw,
                 outcome |-> outcome ]
         lc == [affectedRows |-> AffectedRows(user_refresh_tokens,
                                              user_refresh_tokens')]
     IN  IF outcome = "ok"
           THEN Respond(p, rq, lc,
                  clearAuthCookies(success("LOGOUT_SUCCESS", NoData, NoCustom)))
           ELSE Respond(p, rq, lc, success("LOGOUT_SUCCESS", NoData, NoCustom))
  /\ UNCHANGED <<book, users, now, minted, run>>

(* Faulty variant: the join keeps enabled, non-deleted users only. *)
SelectRefreshRecord_UsableUsers(tokenHash) ==
  { [ user_id |-> user_refresh_tokens[i].user_id,
      remember_me |-> user_refresh_tokens[i].remember_me,
      expires_at |-> user_refresh_tokens[i].expires_at,
      revoked |-> user_refresh_tokens[i].revoked,
      username |-> users[user_refresh_tokens[i].user_id].username,
      role |-> users[user_refresh_tokens[i].user_id].role ] :
    i \in {k \in 1..Len(user_refresh_tokens) :
             /\ user_refresh_tokens[k].token_hash = tokenHash
             /\ user_refresh_tokens[k].user_id \in LiveIds
             /\ users[user_refresh_tokens[k].user_id].status = 1
             /\ users[user_refresh_tokens[k].user_id].is_deleted = 0} }

(* SELECT urt.user_id, urt.remember_me, urt.expires_at, urt.revoked,       *)
(*        u.username, u.role                                               *)
(* FROM user_refresh_tokens urt JOIN users u ON urt.user_id = u.id         *)
(* WHERE urt.token_hash = ? LIMIT 1                                        *)
SelectRefreshRecord(tokenHash) ==
  { [ user_id |-> user_refresh_tokens[i].user_id,
      remember_me |-> user_refresh_tokens[i].remember_me,
      expires_at |-> user_refresh_tokens[i].expires_at,
      revoked |-> user_refresh_tokens[i].revoked,
      username |-> users[user_refresh_tokens[i].user_id].username,
      role |-> users[user_refresh_tokens[i].user_id].role ] :
    i \in {k \in 1..Len(user_refresh_tokens) :
             /\ user_refresh_tokens[k].token_hash = tokenHash
             /\ user_refresh_tokens[k].user_id \in LiveIds} }

NullRecord == [user_id |-> 0]

(* Faulty variants of the checks of refresh-token.                         *)
(* ExpiredOk: a record is taken as expired only after its expiry instant.  *)
RefreshRejection_ExpiredOk(refreshTokenRaw, record) ==
  IF refreshTokenRaw = NoToken
    THEN httpError(401, "UNAUTHORIZED", "missing refresh token")
  ELSE IF record = NullRecord \/ record.revoked = 1
    THEN clearAuthCookies(httpError(401, "UNAUTHORIZED", "invalid refresh token"))
  ELSE IF record.expires_at < now
    THEN clearAuthCookies(httpError(401, "UNAUTHORIZED", "refresh token expired"))
  ELSE NoResponse

(* KeepCookies: the answer to an unknown or revoked token leaves the       *)
(* cookies alone.                                                          *)
RefreshRejection_KeepCookies(refreshTokenRaw, record) ==
  IF refreshTokenRaw = NoToken
    THEN httpError(401, "UNAUTHORIZED", "missing refresh token")
  ELSE IF record = NullRecord \/ record.revoked = 1
    THEN httpError(401, "UNAUTHORIZED", "invalid refresh token")
  ELSE IF record.expires_at <= now
    THEN clearAuthCookies(httpError(401, "UNAUTHORIZED", "refresh token expired"))
  ELSE NoResponse

(* Lines 354-389: what the handler answers to a request it turns away, or  *)
(* NoResponse when the record is usable.  The answer to a missing cookie   *)
(* leaves the cookies alone; the other answers clear them.                 *)
RefreshRejection(refreshTokenRaw, record) ==
  IF refreshTokenRaw = NoToken
    THEN httpError(401, "UNAUTHORIZED", "missing refresh token")
  ELSE IF record = NullRecord \/ record.revoked = 1
    THEN clearAuthCookies(httpError(401, "UNAUTHORIZED", "invalid refresh token"))
  ELSE IF record.expires_at <= now
    THEN clearAuthCookies(httpError(401, "UNAUTHORIZED", "refresh token expired"))
  ELSE NoResponse

(* Faulty variant: the new token gets the default role. *)
RefreshPayload_DefaultRole(record) ==
  [sub |-> record.user_id, username |-> record.username, role |-> "user"]

(* Lines 391-395: the payload of the new access token. *)
RefreshPayload(record) ==
  [sub |-> record.user_id, username |-> record.username, role |-> record.role]

RefreshToken(p, refreshTokenRaw) ==
  /\ pc[p] = "idle" /\ last = NoLast
  /\ LET rq == [op |-> "refresh", refresh_token |-> refreshTokenRaw]
         rows == IF refreshTokenRaw = NoToken THEN {}
                 ELSE SelectRefreshRecord(hashToken(refreshTokenRaw))
     IN  \E record \in (IF rows = {} THEN {NullRecord} ELSE rows) :
           IF RefreshRejection(refreshTokenRaw, record) # NoResponse
             THEN /\ Respond(p, rq, [record |-> record],
                             RefreshRejection(refreshTokenRaw, record))
                  /\ UNCHANGED minted
             ELSE LET newAccessToken ==
                        generateAccessToken(RefreshPayload(record), now)
                  IN  /\ minted' = minted \cup {newAccessToken}
                      /\ Respond(p, rq, [record |-> record],
                           setAuthCookies(success("SUCCESS", NoData, NoCustom),
                                          newAccessToken, refreshTokenRaw))
  /\ UNCHANGED <<book, db, now, run>>

----------------------------------------------------------------------------
(* Authentication gate, src/middlewares/auth.js *)

NoAccess == [key |-> "none"]

(* Faulty variant: the expiry is not verified (ignoreExpiration). *)
jwt_verify_IgnoreExp(token) == token.key = ACCESS_TOKEN_SECRET

(* jwt.verify(token, ACCESS_TOKEN_SECRET): the signature and the expiry. *)
jwt_verify(token) == token.key = ACCESS_TOKEN_SECRET /\ now < token.exp

(* The access cookies a client can send: none, a token the server signed,  *)
(* or a token signed with another key.                                     *)
AccessCookies == {NoAccess, ForgedToken} \cup minted

(* Faulty variant: the gate looks the user up and turns away a disabled or *)
(* soft-deleted one.                                                       *)
authMiddleware_ChecksUser(token) ==
  IF token = NoAccess
    THEN Response(401, 401, "missing access token", NoData)
  ELSE IF token.key # ACCESS_TOKEN_SECRET \/ now >= token.exp
    THEN Response(401, 401, "invalid or expired token", NoData)
  ELSE IF \/ token.sub \notin LiveIds
          \/ users[token.sub].status = 0
          \/ users[token.sub].is_deleted = 1
    THEN Response(401, 401, "invalid or expired token", NoData)
  ELSE NoResponse

(* authMiddleware: the rejection it sends, or NoResponse when it calls     *)
(* next() with req.user set to Principal(token).                           *)
authMiddleware(token) ==
  IF token = NoAccess
    THEN Response(401, 401, "missing access token", NoData)
  ELSE IF ~jwt_verify(token)
    THEN Response(401, 401, "invalid or expired token", NoData)
  ELSE NoResponse

Principal(token) ==
  [id |-> token.sub, username |-> token.username, role |-> token.role]

(* req.user of a request that passed no authentication gate. *)
NoPrincipal == [id |-> 0]

(* Faulty variant: any authenticated principal passes. *)
requireRole_AnyPrincipal(requiredRoles, user) ==
  IF user = NoPrincipal
    THEN Response(401, 401, "not authenticated", NoData)
  ELSE NoResponse

(* requireRole(requiredRoles): the rejection it sends, or NoResponse when  *)
(* it calls next().  A single role is first wrapped into an array; the     *)
(* model passes the array (as a set).                                      *)
requireRole(requiredRoles, user) ==
  IF user = NoPrincipal
    THEN Response(401, 401, "not authenticated", NoData)
  ELSE IF user.role \notin requiredRoles
    THEN Response(403, 403, "no access", NoData)
  ELSE NoResponse

(* GET /admin-only, src/routes/auth.js lines 705-707: authMiddleware,      *)
(* requireRole('admin'), then the handler.  Whatever runs after            *)
(* authMiddleware has req.user in principal.                               *)
AdminOnly(p, token) ==
  /\ pc[p] = "idle" /\ last = NoLast
  /\ LET rq == [op |-> "admin_only", access_token |-> token]
         ran == [principal |-> Principal(token)]
     IN  IF authMiddleware(token) # NoResponse
           THEN Respond(p, rq, NoLoc, authMiddleware(token))
         ELSE IF requireRole({"admin"}, Principal(token)) # NoResponse
           THEN Respond(p, rq, ran, requireRole({"admin"}, Principal(token)))
         ELSE Respond(p, rq, ran, success("SUCCESS", NoData, "welcome, admin"))
  /\ UNCHANGED <<book, db, now, minted, run>>

----------------------------------------------------------------------------
(* Routing, src/app.js: the routers are mounted under /api in this order.  *)
(* A router is its router.use gate (if any) and its routes; a route is its *)
(* method and path, whether authMiddleware is installed on the route, and  *)
(* the roles requireRole asks for (AnyRole: no role gate).                 *)

AnyRole == {"admin", "user"}

Route(route, auth, roles) == [route |-> route, auth |-> auth, roles |-> roles]

authRoutes ==
  [ gate |-> FALSE,
    routes |-> { Route("POST /register", FALSE, AnyRole),
                 Route("POST /login", FALSE, AnyRole),
                 Route("POST /logout", FALSE, AnyRole),
                 Route("POST /refresh-token", FALSE, AnyRole),
                 Route("GET /profile", TRUE, AnyRole),
                 Route("POST /profile/update", TRUE, AnyRole),
                 Route("GET /admin-only", TRUE, {"admin"}) } ]

recordRoutes ==
  [ gate |-> TRUE,
    routes |-> { Route("POST /records", FALSE, AnyRole),
                 Route("PUT /records/update", FALSE, AnyRole),
                 Route("DELETE /records/delete", FALSE, AnyRole),
                 Route("POST /records/detail", FALSE, AnyRole),
                 Route("POST /records/list", FALSE, AnyRole),
                 Route("GET /records/summary", FALSE, AnyRole),
                 Route("GET /records/summary-by-category", FALSE, AnyRole) } ]

(* Faulty variant: the admin routes are mounted without requireRole. *)
recordTypeRoutes_NoRoleGate ==
  [ gate |-> TRUE,
    routes |-> { Route("GET /record-types", FALSE, AnyRole),
                 Route("POST /admin/record-types", FALSE, AnyRole),
                 Route("PUT /admin/record-types/update", FALSE, AnyRole),
                 Route("DELETE /admin/record-types/delete", FALSE, AnyRole) } ]

recordTypeRoutes ==
  [ gate |-> TRUE,
    routes |-> { Route("GET /record-types", FALSE, AnyRole),
                 Route("POST /admin/record-types", FALSE, {"admin"}),
                 Route("PUT /admin/record-types/update", FALSE, {"admin"}),
                 Route("DELETE /admin/record-types/delete", FALSE, {"admin"}) } ]

categoryRoutes ==
  [ gate |-> TRUE,
    routes |-> { Route("GET /categories", FALSE, AnyRole),
                 Route("POST /categories", FALSE, AnyRole),
                 Route("PUT /categories/update", FALSE, AnyRole),
                 Route("DELETE /categories/delete", FALSE, AnyRole) } ]

tagRoutes ==
  [ gate |-> TRUE,
    routes |-> { Route("GET /tags", FALSE, AnyRole),
                 Route("POST /tags", FALSE, AnyRole),
                 Route("DELETE /tags/delete", FALSE, AnyRole) } ]

(* Faulty variant: the record router is mounted before the auth router. *)
App_RecordsFirst ==
  <<recordRoutes, authRoutes, recordTypeRoutes, categoryRoutes, tagRoutes>>

App == <<authRoutes, recordRoutes, recordTypeRoutes, categoryRoutes, tagRoutes>>

(* No router answered: the request falls through to the framework. *)
NoHandler == "none"

(* What a middleware chain does with a request: the rejection a gate      *)
(* sends, or the handler it reaches with req.user set to principal.       *)
Rejected(res) == [rejection |-> res, handler |-> NoHandler,
                  principal |-> NoPrincipal]

Reached(handler, user) == [rejection |-> NoResponse, handler |-> handler,
                           principal |-> user]

(* The routers from position i on, in mounting order: the gate of a       *)
(* router runs for every request that gets to the router; a matching      *)
(* route runs its own middlewares and then the handler; without a match   *)
(* the request goes on to the next router with req.user as it is.         *)
RECURSIVE Walk(_, _, _, _, _)
Walk(app, i, route, token, user) ==
  IF i > Len(app) THEN Reached(NoHandler, user)
  ELSE LET router == app[i]
           gated == IF router.gate THEN authMiddleware(token) ELSE NoResponse
           seen == IF router.gate THEN Principal(token) ELSE user
           match == {r \in router.routes : r.route = route}
       IN  IF gated # NoResponse THEN Rejected(gated)
           ELSE IF match = {} THEN Walk(app, i + 1, route, token, seen)
           ELSE LET r == CHOOSE r \in match : TRUE
                    own == IF r.auth THEN authMiddleware(token) ELSE NoResponse
                    who == IF r.auth THEN Principal(token) ELSE seen
                IN  IF own # NoResponse THEN Rejected(own)
                    ELSE IF r.roles # AnyRole
                            /\ requireRole(r.roles, who) # NoResponse
                      THEN [Rejected(requireRole(r.roles, who))
                              EXCEPT !.principal = who]
                    ELSE Reached(route, who)

Dispatch(route, token) == Walk(App, 1, route, token, NoPrincipal)

----------------------------------------------------------------------------
(* Record types, src/routes/recordTypes.js.  The handlers are written as   *)
(* one step each: they are used where requests do not overlap.             *)

(* What a gate of the chain leaves for the response: req.user if a gate   *)
(* attached it.                                                            *)
SeenBy(d) ==
  IF d.principal = NoPrincipal THEN NoLoc ELSE [principal |-> d.principal]

RecordTypeIds == 1..Len(fs_record_types)

(* Lines 129-170: POST /admin/record-types.  description and sort_order    *)
(* take part in no decision.                                               *)
RecordTypeCreate(p, token, code, name) ==
  /\ pc[p] = "idle" /\ last = NoLast
  /\ LET rq == [ op |-> "record_type_create", access_token |-> token,
                 code |-> code, name |-> name ]
         d == Dispatch("POST /admin/record-types", token)
         existed == {i \in RecordTypeIds : /\ fs_record_types[i].code = code
                                           /\ fs_record_types[i].is_deleted = 0}
         insertId == Len(fs_record_types) + 1
     IN  IF d.rejection # NoResponse
           THEN /\ Respond(p, rq, SeenBy(d), d.rejection)
                /\ UNCHANGED fs_record_types
         ELSE IF code = Missing \/ name = Missing
           THEN /\ Respond(p, rq, SeenBy(d), fail("RECORD_TYPE_REQUIRED_FIELDS"))
                /\ UNCHANGED fs_record_types
         ELSE IF existed # {}
           THEN /\ Respond(p, rq, SeenBy(d), fail("RECORD_TYPE_CODE_EXISTS"))
                /\ UNCHANGED fs_record_types
         ELSE /\ insertId <= MaxTypes
              /\ fs_record_types' =
                   Append(fs_record_types,
                          [ id |-> insertId, code |-> code, name |-> name,
                            is_system |-> 1, is_deleted |-> 0 ])
              /\ Respond(p, rq, SeenBy(d),
                         success("SUCCESS", [id |-> insertId], NoCustom))
  /\ UNCHANGED <<db, now, minted, run, fs_records, fs_record_history>>

(* Lines 224-278: PUT /admin/record-types/update; id 0 is a missing id,    *)
(* name Missing a body without fields to set.                              *)
RecordTypeUpdate(p, token, id, name) ==
  /\ pc[p] = "idle" /\ last = NoLast
  /\ LET rq == [ op |-> "record_type_update", access_token |-> token,
                 id |-> id, name |-> name ]
         d == Dispatch("PUT /admin/record-types/update", token)
     IN  IF d.rejection # NoResponse
           THEN /\ Respond(p, rq, SeenBy(d), d.rejection)
                /\ UNCHANGED fs_record_types
         ELSE IF id = 0
           THEN /\ Respond(p, rq, SeenBy(d), fail("INVALID_PARAMS"))
                /\ UNCHANGED fs_record_types
         ELSE IF id \notin RecordTypeIds \/ fs_record_types[id].is_deleted = 1
           THEN /\ Respond(p, rq, SeenBy(d), fail("RECORD_TYPE_NOT_FOUND"))
                /\ UNCHANGED fs_record_types
         ELSE IF name = Missing
           THEN /\ Respond(p, rq, SeenBy(d),
                           success("UPDATE_SUCCESS", NoData, NoCustom))
                /\ UNCHANGED fs_record_types
         ELSE /\ fs_record_types' = [fs_record_types EXCEPT ![id].name = name]
              /\ Respond(p, rq, SeenBy(d),
                         success("UPDATE_SUCCESS", NoData, NoCustom))
  /\ UNCHANGED <<db, now, minted, run, fs_records, fs_record_history>>

(* Lines 325-366: DELETE /admin/record-types/delete, a soft delete. *)
RecordTypeDelete(p, token, id) ==
  /\ pc[p] = "idle" /\ last = NoLast
  /\ LET rq == [ op |-> "record_type_delete", access_token |-> token,
                 id |-> id ]
         d == Dispatch("DELETE /admin/record-types/delete", token)
     IN  IF d.rejection # NoResponse
           THEN /\ Respond(p, rq, SeenBy(d), d.rejection)
                /\ UNCHANGED fs_record_types
         ELSE IF id = 0
           THEN /\ Respond(p, rq, SeenBy(d), fail("INVALID_PARAMS"))
                /\ UNCHANGED fs_record_types
         ELSE IF id \notin RecordTypeIds \/ fs_record_types[id].is_deleted = 1
           THEN /\ Respond(p, rq, SeenBy(d), fail("RECORD_TYPE_NOT_FOUND"))
                /\ UNCHANGED fs_record_types
         ELSE /\ fs_record_types' =
                   [fs_record_types EXCEPT ![id].is_deleted = 1]
              /\ Respond(p, rq, SeenBy(d),
                         success("SUCCESS", NoData, NoCustom))
  /\ UNCHANGED <<db, now, minted, run, fs_records, fs_record_history>>

----------------------------------------------------------------------------
(* Records, src/unnamed/part_001 (routes/records), with the database       *)
(* helper of src/config.  A handler is one step: the statements it         *)
(* executes up to the one that throws (failAt), and its exit.              *)

(* The properties of the exported function query (module.exports = {pool,  *)
(* testConnection, query}): a plain async function has none of its own.    *)
QueryProperties == {}

NoConn == 0

(* const conn = await query.getConnection ? await query.getConnection()    *)
(*                                         : null                          *)
getConnection(p) ==
  IF "getConnection" \in QueryProperties THEN p ELSE NoConn

(* formatDateTimeForMySQL: null for a missing string, an exception for a   *)
(* string that is no date, else the UTC date and time to the second.       *)
IsoDates == {"2026-02-04T13:47:19.029Z"}

formatDateTimeForMySQL(isoString) ==
  IF isoString = Missing THEN "null"
  ELSE IF isoString \notin IsoDates THEN "throws"
  ELSE "2026-02-04 13:47:19"

RecordIds == 1..Len(fs_records)

(* SELECT ... FROM fs_records WHERE id = ? AND user_id = ? LIMIT 1 *)
SelectRecord(recordId, userId) ==
  {i \in RecordIds : i = recordId /\ fs_records[i].user_id = userId}

History(recordId, userId, operation) ==
  [record_id |-> recordId, user_id |-> userId, operation |-> operation]

(* The statements a handler awaits, in order; the transaction statements   *)
(* are issued only on a connection.                                        *)
Statements(conn, own) ==
  IF conn = NoConn THEN own ELSE {"begin", "commit"} \cup own

(* How a handler left: the connection it acquired, how its transaction     *)
(* ended (commit, rollback, or none) and how often it released the         *)
(* connection.                                                             *)
Exit(d, conn, ended, released) ==
  [principal |-> d.principal, conn |-> conn, ended |-> ended,
   released |-> released]

(* The exit of the catch block around the statements: rollback and         *)
(* release on a connection, nothing without one.                           *)
Caught(d, conn) ==
  IF conn = NoConn THEN Exit(d, conn, "none", 0)
  ELSE Exit(d, conn, "rollback", 1)

ServerError == httpError(500, "INTERNAL_SERVER_ERROR", NoCustom)

(* Lines 301-416: POST /records.  A body is type_id, amount, occurred_at   *)
(* (category_id is given with type_id; remark and tag_ids are absent).     *)
(* Without a connection every statement is committed as it is executed.    *)
RecordCreate(p, token, body, failAt) ==
  /\ pc[p] = "idle" /\ last = NoLast
  /\ LET rq == [ op |-> "record_create", access_token |-> token,
                 type_id |-> body.type_id, amount |-> body.amount,
                 occurred_at |-> body.occurred_at, failAt |-> failAt ]
         d == Dispatch("POST /records", token)
         userId == d.principal.id
         conn == getConnection(p)
         recordId == Len(fs_records) + 1
         row == [ id |-> recordId, user_id |-> userId,
                  amount |-> body.amount, is_deleted |-> 0 ]
         inserted == Append(fs_records, row)
         logged == Append(fs_record_history,
                          History(recordId, userId, "CREATE"))
         none == Exit(d, NoConn, "none", 0)
     IN  IF d.rejection # NoResponse
           THEN /\ failAt = "none"
                /\ Respond(p, rq, SeenBy(d), d.rejection)
                /\ UNCHANGED <<fs_records, fs_record_history>>
         ELSE IF body.type_id = 0 \/ body.amount = 0
                 \/ body.occurred_at = Missing
           THEN /\ failAt = "none"
                /\ Respond(p, rq, none, fail("RECORD_REQUIRED_FIELDS"))
                /\ UNCHANGED <<fs_records, fs_record_history>>
         ELSE IF body.amount <= 0
           THEN /\ failAt = "none"
                /\ Respond(p, rq, none, fail("RECORD_AMOUNT_INVALID"))
                /\ UNCHANGED <<fs_records, fs_record_history>>
         ELSE IF formatDateTimeForMySQL(body.occurred_at) \in {"null", "throws"}
           THEN /\ failAt = "none"
                /\ Respond(p, rq, none,
                           Response(200, 0 - 1, "occurred_at is not a date",
                                    NoData))
                /\ UNCHANGED <<fs_records, fs_record_history>>
         ELSE /\ failAt \in {"none"} \cup Statements(conn, {"insert", "history"})
              /\ recordId <= MaxRecords
              /\ Len(fs_record_history) < MaxHistory
              /\ IF failAt = "begin"
                   THEN \* outer catch: the connection is not released
                        /\ Respond(p, rq, Exit(d, conn, "none", 0), ServerError)
                        /\ UNCHANGED <<fs_records, fs_record_history>>
                 ELSE IF failAt = "insert"
                   THEN /\ Respond(p, rq, Caught(d, conn), ServerError)
                        /\ UNCHANGED <<fs_records, fs_record_history>>
                 ELSE IF failAt = "history"
                   THEN /\ Respond(p, rq, Caught(d, conn), ServerError)
                        /\ fs_records' = IF conn = NoConn THEN inserted
                                                          ELSE fs_records
                        /\ UNCHANGED fs_record_history
                 ELSE IF failAt = "commit"
                   THEN /\ Respond(p, rq, Caught(d, conn), ServerError)
                        /\ UNCHANGED <<fs_records, fs_record_history>>
                 ELSE /\ Respond(p, rq,
                                 IF conn = NoConn THEN Exit(d, conn, "none", 0)
                                 ELSE Exit(d, conn, "commit", 1),
                                 success("SUCCESS", [id |-> recordId], NoCustom))
                      /\ fs_records' = inserted
                      /\ fs_record_history' = logged
  /\ UNCHANGED <<db, now, minted, run, fs_record_types>>

(* Lines 463-650: PUT /records/update.  A body is id (0: missing), the     *)
(* names of the fields it gives, and amount and occurred_at where given.   *)
RecordUpdate(p, token, body, failAt) ==
  /\ pc[p] = "idle" /\ last = NoLast
  /\ LET rq == [ op |-> "record_update", access_token |-> token,
                 id |-> body.id, given |-> body.given,
                 amount |-> body.amount, occurred_at |-> body.occurred_at,
                 failAt |-> failAt ]
         d == Dispatch("PUT /records/update", token)
         userId == d.principal.id
         recordId == body.id
         conn == getConnection(p)
         rows == SelectRecord(recordId, userId)
         updated == IF "amount" \in body.given
                      THEN [fs_records EXCEPT ![recordId].amount = body.amount]
                      ELSE fs_records
         logged == Append(fs_record_history,
                          History(recordId, userId, "UPDATE"))
         none == Exit(d, NoConn, "none", 0)
     IN  IF d.rejection # NoResponse
           THEN /\ failAt = "none"
                /\ Respond(p, rq, SeenBy(d), d.rejection)
                /\ UNCHANGED <<fs_records, fs_record_history>>
         ELSE IF recordId = 0
           THEN /\ failAt = "none"
                /\ Respond(p, rq, none, fail("INVALID_PARAMS"))
                /\ UNCHANGED <<fs_records, fs_record_history>>
         ELSE IF failAt = "begin"
           THEN \* outer catch: the connection is not released
                /\ conn # NoConn
                /\ Respond(p, rq, Exit(d, conn, "none", 0), ServerError)
                /\ UNCHANGED <<fs_records, fs_record_history>>
         ELSE IF failAt = "select"
           THEN /\ Respond(p, rq, Caught(d, conn), ServerError)
                /\ UNCHANGED <<fs_records, fs_record_history>>
         ELSE IF rows = {} \/ fs_records[recordId].is_deleted = 1
           THEN /\ failAt = "none"
                /\ Respond(p, rq, Caught(d, conn), fail("RECORD_NOT_FOUND"))
                /\ UNCHANGED <<fs_records, fs_record_history>>
         ELSE IF "amount" \in body.given /\ body.amount <= 0
           THEN \* returns inside the try block: no rollback, no release
                /\ failAt = "none"
                /\ Respond(p, rq, Exit(d, conn, "none", 0),
                           fail("RECORD_AMOUNT_INVALID"))
                /\ UNCHANGED <<fs_records, fs_record_history>>
         ELSE IF /\ "occurred_at" \in body.given
                 /\ formatDateTimeForMySQL(body.occurred_at)
                      \in {"null", "throws"}
           THEN /\ failAt = "none"
                /\ Respond(p, rq, Caught(d, conn),
                           Response(200, 0 - 1, "occurred_at is not a date",
                                    NoData))
                /\ UNCHANGED <<fs_records, fs_record_history>>
         ELSE /\ failAt \in {"none"}
                     \cup Statements(conn, {"history"}
                            \cup IF body.given = {} THEN {} ELSE {"update"})
              /\ Len(fs_record_history) < MaxHistory
              /\ IF failAt = "update"
                   THEN /\ Respond(p, rq, Caught(d, conn), ServerError)
                        /\ UNCHANGED <<fs_records, fs_record_history>>
                 ELSE IF failAt = "history"
                   THEN /\ Respond(p, rq, Caught(d, conn), ServerError)
                        /\ fs_records' = IF conn = NoConn THEN updated
                                                          ELSE fs_records
                        /\ UNCHANGED fs_record_history
                 ELSE IF failAt = "commit"
                   THEN /\ Respond(p, rq, Caught(d, conn), ServerError)
                        /\ UNCHANGED <<fs_records, fs_record_history>>
                 ELSE /\ Respond(p, rq,
                                 IF conn = NoConn THEN Exit(d, conn, "none", 0)
                                 ELSE Exit(d, conn, "commit", 1),
                                 success("UPDATE_SUCCESS", NoData, NoCustom))
                      /\ fs_records' = updated
                      /\ fs_record_history' = logged
  /\ UNCHANGED <<db, now, minted, run, fs_record_types>>

(* Lines 680-776: DELETE /records/delete, a soft delete. *)
RecordDelete(p, token, id, failAt) ==
  /\ pc[p] = "idle" /\ last = NoLast
  /\ LET rq == [ op |-> "record_delete", access_token |-> token,
                 id |-> id, failAt |-> failAt ]
         d == Dispatch("DELETE /records/delete", token)
         userId == d.principal.id
         recordId == id
         conn == getConnection(p)
         rows == SelectRecord(recordId, userId)
         deleted == [fs_records EXCEPT ![recordId].is_deleted = 1]
         logged == Append(fs_record_history,
                          History(recordId, userId, "DELETE"))
         none == Exit(d, NoConn, "none", 0)
     IN  IF d.rejection # NoResponse
           THEN /\ failAt = "none"
                /\ Respond(p, rq, SeenBy(d), d.rejection)
                /\ UNCHANGED <<fs_records, fs_record_history>>
         ELSE IF recordId = 0
           THEN /\ failAt = "none"
                /\ Respond(p, rq, none, fail("INVALID_PARAMS"))
                /\ UNCHANGED <<fs_records, fs_record_history>>
         ELSE IF failAt = "begin"
           THEN \* outer catch: the connection is not released
                /\ conn # NoConn
                /\ Respond(p, rq, Exit(d, conn, "none", 0), ServerError)
                /\ UNCHANGED <<fs_records, fs_record_history>>
         ELSE IF failAt = "select"
           THEN /\ Respond(p, rq, Caught(d, conn), ServerError)
                /\ UNCHANGED <<fs_records, fs_record_history>>
         ELSE IF rows = {} \/ fs_records[recordId].is_deleted = 1
           THEN /\ failAt = "none"
                /\ Respond(p, rq, Caught(d, conn), fail("RECORD_NOT_FOUND"))
                /\ UNCHANGED <<fs_records, fs_record_history>>
         ELSE /\ failAt \in {"none"} \cup Statements(conn, {"update", "history"})
              /\ Len(fs_record_history) < MaxHistory
              /\ IF failAt = "update"
                   THEN /\ Respond(p, rq, Caught(d, conn), ServerError)
                        /\ UNCHANGED <<fs_records, fs_record_history>>
                 ELSE IF failAt = "history"
                   THEN /\ Respond(p, rq, Caught(d, conn), ServerError)
                        /\ fs_records' = IF conn = NoConn THEN deleted
                                                          ELSE fs_records
                        /\ UNCHANGED fs_record_history
                 ELSE IF failAt = "commit"
                   THEN /\ Respond(p, rq, Caught(d, conn), ServerError)
                        /\ UNCHANGED <<fs_records, fs_record_history>>
                 ELSE /\ Respond(p, rq,
                                 IF conn = NoConn THEN Exit(d, conn, "none", 0)
                                 ELSE Exit(d, conn, "commit", 1),
                                 success("SUCCESS", NoData, NoCustom))
                      /\ fs_records' = deleted
                      /\ fs_record_history' = logged
  /\ UNCHANGED <<db, now, minted, run, fs_record_types>>

----------------------------------------------------------------------------
(* POST /profile/update, src/routes/auth.js *)

(* Inputs that fail a format check: the length check, the character check  *)
(* of the username and the shape check of the email.                       *)
ShortUsername == "al"
OddUsername == "al ice"
OddEmail == "alice.x.com"

UsernameLengthOk(username) == username # ShortUsername
UsernameFormatOk(username) == username # OddUsername
EmailFormatOk(email) == email # OddEmail

(* The statement that follows the lookup of the current user. *)
AfterCurrent(rq, currentUser) ==
  IF rq.username # Missing /\ rq.username # currentUser.username
    THEN "pu_check_username"
  ELSE IF rq.email # Missing /\ rq.email # currentUser.email
    THEN "pu_check_email"
  ELSE "pu_update"

(* Lines 538-583: the gate, the field checks, the lookup of the caller.    *)
(* other: nickName or avatarUrl is given (columns no decision reads).      *)
(* A handler that runs keeps req.user in principal; the answer of the gate *)
(* has no locals.                                                          *)
ProfileUpdateSelect(p, token, username, email, other) ==
  /\ pc[p] = "idle" /\ last = NoLast
  /\ LET rq == [ op |-> "profile_update", access_token |-> token,
                 username |-> username, email |-> email, other |-> other ]
         userId == Principal(token).id
         currentUser == IF userId \in LiveIds THEN users[userId] ELSE NullUser
         ran == [principal |-> Principal(token)]
         lc == [principal |-> Principal(token),
                user |-> LoginColumns(currentUser)]
     IN  IF authMiddleware(token) # NoResponse
           THEN Respond(p, rq, NoLoc, authMiddleware(token))
         ELSE IF username = Missing /\ email = Missing /\ ~other
           THEN Respond(p, rq, ran, fail("NO_FIELDS_TO_UPDATE"))
         ELSE IF email # Missing /\ ~EmailFormatOk(email)
           THEN Respond(p, rq, ran, fail("INVALID_EMAIL_FORMAT"))
         ELSE IF username # Missing /\ ~UsernameLengthOk(username)
           THEN Respond(p, rq, ran, fail("USERNAME_LENGTH_INVALID"))
         ELSE IF username # Missing /\ ~UsernameFormatOk(username)
           THEN Respond(p, rq, ran, fail("INVALID_USERNAME_FORMAT"))
         ELSE IF currentUser = NullUser \/ currentUser.is_deleted = 1
           THEN Respond(p, rq, lc, fail("USER_NOT_FOUND"))
         ELSE Goto(p, AfterCurrent(rq, currentUser), Kept(rq),
                   [user |-> KeptColumns(currentUser)])
  /\ UNCHANGED <<book, db, now, minted, run>>

(* Lines 585-600: SELECT ... WHERE username = ? AND id != ? AND is_deleted = 0 *)
ProfileUpdateCheckUsername(p) ==
  /\ pc[p] = "pu_check_username" /\ last = NoLast
  /\ LET rq == req[p]
         userId == loc[p].user.id
         existed == {i \in LiveIds : /\ users[i].username = rq.username
                                     /\ i # userId /\ users[i].is_deleted = 0}
     IN  IF existed # {}
           THEN Respond(p, rq, loc[p], fail("USERNAME_EXISTS"))
         ELSE IF rq.email # Missing /\ rq.email # loc[p].user.email
           THEN Goto(p, "pu_check_email", rq, loc[p])
         ELSE Goto(p, "pu_update", rq, loc[p])
  /\ UNCHANGED <<book, db, now, minted, run>>

(* Lines 602-617: SELECT ... WHERE email = ? AND id != ? AND is_deleted = 0 *)
ProfileUpdateCheckEmail(p) ==
  /\ pc[p] = "pu_check_email" /\ last = NoLast
  /\ LET rq == req[p]
         userId == loc[p].user.id
         existed == {i \in LiveIds : /\ users[i].email = rq.email
                                     /\ i # userId /\ users[i].is_deleted = 0}
     IN  IF existed # {}
           THEN Respond(p, rq, loc[p], fail("EMAIL_EXISTS"))
         ELSE Goto(p, "pu_update", rq, loc[p])
  /\ UNCHANGED <<book, db, now, minted, run>>

(* Faulty variant: the UPDATE goes through whatever the other rows hold. *)
ProfileUpdateWrite_Unchecked(p) ==
  /\ pc[p] = "pu_update" /\ last = NoLast
  /\ LET rq == req[p]
         userId == loc[p].user.id
         username == IF rq.username # Missing THEN rq.username
                     ELSE users[userId].username
         email == IF rq.email # Missing THEN rq.email ELSE users[userId].email
     IN  /\ users' = [users EXCEPT ![userId].username = username,
                                   ![userId].email = email]
         /\ Goto(p, "pu_reselect", rq, loc[p])
  /\ UNCHANGED <<book, user_refresh_tokens, now, minted, run>>

(* Lines 619-652 and 678-685: UPDATE users SET ... WHERE id = ?, and the   *)
(* duplicate-key error it can raise.                                       *)
ProfileUpdateWrite(p) ==
  /\ pc[p] = "pu_update" /\ last = NoLast
  /\ LET rq == req[p]
         userId == loc[p].user.id
         username == IF rq.username # Missing THEN rq.username
                     ELSE users[userId].username
         email == IF rq.email # Missing THEN rq.email ELSE users[userId].email
         changed == username # users[userId].username \/ email # users[userId].email
     IN  IF changed /\ users[userId].is_deleted = 0
                    /\ DupEntry(userId, username, email)
           THEN /\ Respond(p, rq, loc[p], fail("USERNAME_OR_EMAIL_EXISTS"))
                /\ UNCHANGED users
           ELSE /\ users' = [users EXCEPT ![userId].username = username,
                                          ![userId].email = email]
                /\ Goto(p, "pu_reselect", rq, loc[p])
  /\ UNCHANGED <<book, user_refresh_tokens, now, minted, run>>

(* Lines 654-677: SELECT ... WHERE id = ? AND is_deleted = 0, the answer. *)
ProfileUpdateReselect(p) ==
  /\ pc[p] = "pu_reselect" /\ last = NoLast
  /\ LET rq == req[p]
         userId == loc[p].user.id
     IN  IF users[userId].is_deleted = 1
           THEN Respond(p, rq, loc[p], fail("USER_NOT_FOUND"))
           ELSE Respond(p, rq, loc[p],
                  success("UPDATE_SUCCESS",
                    [user |-> [id |-> userId,
                               username |-> users[userId].username,
                               email |-> users[userId].email,
                               role |-> users[userId].role]],
                    NoCustom))
  /\ UNCHANGED <<book, db, now, minted, run>>

----------------------------------------------------------------------------
(* Environment *)

(* The client receives the response. *)
Deliver ==
  /\ last # NoLast
  /\ last' = NoLast
  /\ UNCHANGED <<book, db, now, minted, pc, req, loc, run>>

(* Changes made to a user outside the API (by an administrator, directly  *)
(* in the database): enabling or disabling, soft-deleting or restoring,    *)
(* changing the role.                                                      *)
OutOfBand(u, column, value) ==
  /\ last = NoLast /\ \A p \in Procs : pc[p] = "idle"
  /\ u \in LiveIds
  /\ users[u][column] # value
  /\ users' = [users EXCEPT ![u][column] = value]
  /\ UNCHANGED <<book, user_refresh_tokens, now, minted, pc, req, loc, last,
                 run>>

Tick ==
  /\ now < MaxNow /\ last = NoLast
  /\ now' = now + 1
  /\ UNCHANGED <<book, db, minted, pc, req, loc, last, run>>

----------------------------------------------------------------------------
(* Specifications *)

(* The requests a client sends.  A request with a missing field is sent   *)
(* in one shape per missing field.  Logins name alice or a username that   *)
(* no account has.                                                         *)
LoginBodies ==
  [username : {"alice", "nobody"}, password : Passwords, rememberMe : BOOLEAN]
    \cup [username : {Missing}, password : {"guess"}, rememberMe : {FALSE}]
    \cup [username : {"alice"}, password : {Missing}, rememberMe : {FALSE}]

RegisterBodies ==
  [username : Usernames, email : Emails, password : RegisterPasswords,
   role : {Missing}]
    \cup [username : {Missing}, email : {"bob@x.com"}, password : {"Secr3t!"},
          role : {Missing}]
    \cup [username : {"bob"}, email : {Missing}, password : {"Secr3t!"},
          role : {Missing}]
    \cup [username : {"bob"}, email : {"bob@x.com"}, password : {Missing},
          role : {Missing}]

ProfileBodies ==
  [username : Usernames, email : {Missing}, other : {FALSE}]
    \cup [username : {Missing}, email : Emails, other : {FALSE}]
    \cup [username : {Missing}, email : {Missing}, other : BOOLEAN]
    \cup [username : {ShortUsername, OddUsername}, email : {Missing},
          other : {FALSE}]
    \cup [username : {Missing}, email : {OddEmail}, other : {FALSE}]

(* The requests of the runs in which requests overlap. *)
RaceLoginBodies ==
  [username : {"alice"}, password : Passwords, rememberMe : {FALSE}]

RaceRegisterBodies ==
  { [username |-> "bob", email |-> "bob@x.com", password |-> "Secr3t!",
     role |-> "admin"],
    [username |-> "alice", email |-> "bob@x.com", password |-> "Secr3t!",
     role |-> "admin"] }

RaceProfileBodies ==
  { [username |-> "bob", email |-> Missing, other |-> FALSE],
    [username |-> Missing, email |-> "bob@x.com", other |-> FALSE] }

(* Requests do not overlap when a handler starts only while every other   *)
(* process is idle.                                                        *)
Quiet(p) == \A q \in Procs \ {p} : pc[q] = "idle"

(* The operations; alone tells whether requests are kept from overlapping, *)
(* outcomes how the statement of a logout may end.                         *)
Login(p, bodies, alone) ==
  \/ \E body \in bodies :
       /\ alone => Quiet(p)
       /\ LoginSelect(p, body.username, body.password, body.rememberMe)
  \/ LoginUpdate(p)
  \/ LoginStore(p)

Register(p, bodies, alone) ==
  \/ \E body \in bodies :
       /\ alone => Quiet(p)
       /\ RegisterSelect(p, body.username, body.email, body.password,
                         body.role)
  \/ RegisterInsert(p)

ProfileUpdate(p, tokens, bodies, alone) ==
  \/ \E token \in tokens, body \in bodies :
       /\ alone => Quiet(p)
       /\ ProfileUpdateSelect(p, token, body.username, body.email, body.other)
  \/ ProfileUpdateCheckUsername(p)
  \/ ProfileUpdateCheckEmail(p)
  \/ ProfileUpdateWrite(p)
  \/ ProfileUpdateReselect(p)

Session(p, outcomes, alone) ==
  \/ \E refreshTokenRaw \in RefreshCookies, outcome \in outcomes :
       /\ alone => Quiet(p)
       /\ Logout(p, refreshTokenRaw, outcome)
  \/ \E refreshTokenRaw \in RefreshCookies :
       /\ alone => Quiet(p)
       /\ RefreshToken(p, refreshTokenRaw)

(* Requests overlap: every process may move at any time. *)
Next ==
  \/ \E p \in Procs : Login(p, RaceLoginBodies, FALSE)
  \/ \E p \in Procs : Register(p, RaceRegisterBodies, FALSE)
  \/ \E p \in Procs : Session(p, {"ok"}, FALSE)
  \/ \E p \in Procs : ProfileUpdate(p, minted, RaceProfileBodies, FALSE)
  \/ Deliver

Spec == Init /\ [][Next]_vars

(* Requests that do not overlap. *)
NextSeq ==
  \/ \E p \in Procs : Login(p, LoginBodies, TRUE)
  \/ \E p \in Procs : Register(p, RegisterBodies, TRUE)
  \/ \E p \in Procs : Session(p, QueryOutcomes, TRUE)
  \/ Deliver

SpecSeq == Init /\ [][NextSeq]_vars

(* The routes behind the authentication gate: sessions are opened, used,  *)
(* refreshed and closed while the clock advances and users are changed     *)
(* outside the API.  Requests do not overlap.                              *)
GateLoginBodies ==
  [username : {"alice"}, password : {"Secr3t!"}, rememberMe : {FALSE}]

GateProfileBodies ==
  { [username |-> "bob", email |-> Missing, other |-> FALSE],
    [username |-> Missing, email |-> Missing, other |-> FALSE] }

NextGate ==
  \/ \E p \in Procs : Login(p, GateLoginBodies, TRUE)
  \/ \E p \in Procs : Session(p, {"ok"}, TRUE)
  \/ \E p \in Procs :
       ProfileUpdate(p, AccessCookies, GateProfileBodies, TRUE)
  \/ \E p \in Procs, token \in AccessCookies :
       /\ Quiet(p)
       /\ AdminOnly(p, token)
  \/ \E u \in UserIds :
       \/ \E value \in {0, 1} : OutOfBand(u, "status", value)
       \/ \E value \in {0, 1} : OutOfBand(u, "is_deleted", value)
       \/ \E value \in {"admin", "user"} : OutOfBand(u, "role", value)
  \/ Tick
  \/ Deliver

SpecGate == Init /\ [][NextGate]_vars

(* The bookkeeping routes behind the router gates: users sign up and log  *)
(* in, administrators maintain the record types, users keep records,      *)
(* statements fail.  Requests do not overlap.                             *)
BookLoginBodies ==
  [username : {"alice", "bob"}, password : {"Secr3t!"}, rememberMe : {FALSE}]

BookRegisterBodies ==
  { [username |-> "bob", email |-> "bob@x.com", password |-> "Secr3t!",
     role |-> Missing] }

RecordBodies ==
  { [type_id |-> 1, amount |-> 5, occurred_at |-> "2026-02-04T13:47:19.029Z"],
    [type_id |-> 0, amount |-> 5, occurred_at |-> "2026-02-04T13:47:19.029Z"],
    [type_id |-> 1, amount |-> 0, occurred_at |-> "2026-02-04T13:47:19.029Z"],
    [type_id |-> 1, amount |-> 0 - 1,
     occurred_at |-> "2026-02-04T13:47:19.029Z"],
    [type_id |-> 1, amount |-> 5, occurred_at |-> "yesterday"] }

RecordUpdateBodies ==
  { [id |-> 0, given |-> {}, amount |-> 0, occurred_at |-> Missing],
    [id |-> 1, given |-> {}, amount |-> 0, occurred_at |-> Missing],
    [id |-> 1, given |-> {"amount"}, amount |-> 7, occurred_at |-> Missing],
    [id |-> 1, given |-> {"amount"}, amount |-> 0, occurred_at |-> Missing],
    [id |-> 1, given |-> {"occurred_at"}, amount |-> 0,
     occurred_at |-> "yesterday"] }

FailAt == {"none", "begin", "select", "insert", "update", "history", "commit"}

(* The handler a request gets to, if the middleware chain lets it. *)
Reaches(route, token) == Dispatch(route, token).handler = route

NextBook ==
  \/ \E p \in Procs, token \in {NoAccess, ForgedToken} :
       /\ Reaches("POST /login", token)
       /\ Login(p, BookLoginBodies, TRUE)
  \/ \E p \in Procs, token \in {NoAccess, ForgedToken} :
       /\ Reaches("POST /register", token)
       /\ Register(p, BookRegisterBodies, TRUE)
  \/ \E p \in Procs, token \in AccessCookies :
       /\ Quiet(p)
       /\ AdminOnly(p, token)
  \/ \E p \in Procs, token \in AccessCookies :
       /\ Quiet(p)
       /\ \/ \E code \in {Missing, "food"} :
               RecordTypeCreate(p, token, code, "Food")
          \/ \E id \in {0, 1}, name \in {Missing, "Meals"} :
               RecordTypeUpdate(p, token, id, name)
          \/ \E id \in {0, 1} : RecordTypeDelete(p, token, id)
  \/ \E p \in Procs, token \in AccessCookies, failAt \in FailAt :
       /\ Quiet(p)
       /\ \/ \E body \in RecordBodies : RecordCreate(p, token, body, failAt)
          \/ \E body \in RecordUpdateBodies :
               RecordUpdate(p, token, body, failAt)
          \/ \E id \in {0, 1} : RecordDelete(p, token, id, failAt)
  \/ Deliver

SpecBook == Init /\ [][NextBook]_vars

(* Requests that do not overlap, while the clock advances. *)
NextClock ==
  \/ NextSeq
  \/ Tick

SpecClock == Init /\ [][NextClock]_vars

(* No login on an account that a lookup of username returns is in flight. *)
NoLoginInFlight(username) ==
  \A q \in Procs :
    pc[q] \in {"login_compare", "login_store"}
      => \A user \in SelectUserByUsername(username) :
           user.id # loc[q].user.id

(* Logins on one account do not overlap each other; they overlap the      *)
(* other requests, which overlap freely.                                   *)
NextSolo ==
  \/ \E p \in Procs, body \in RaceLoginBodies :
       /\ NoLoginInFlight(body.username)
       /\ LoginSelect(p, body.username, body.password, body.rememberMe)
  \/ \E p \in Procs : LoginUpdate(p)
  \/ \E p \in Procs : LoginStore(p)
  \/ \E p \in Procs : Register(p, RaceRegisterBodies, FALSE)
  \/ \E p \in Procs : Session(p, {"ok"}, FALSE)
  \/ \E p \in Procs : ProfileUpdate(p, minted, RaceProfileBodies, FALSE)
  \/ Deliver

SpecSolo == Init /\ [][NextSolo]_vars

(* Sessions that outlive the state of their user: logins with the right   *)
(* and the wrong password, refreshes and logouts, one after another,      *)
(* while the clock advances and users are changed outside the API.        *)
NextStale ==
  \/ \E p \in Procs : Login(p, RaceLoginBodies, TRUE)
  \/ \E p \in Procs : Session(p, {"ok"}, TRUE)
  \/ \E u \in UserIds :
       \/ \E value \in {0, 1} : OutOfBand(u, "status", value)
       \/ \E value \in {0, 1} : OutOfBand(u, "is_deleted", value)
       \/ \E value \in {"admin", "user"} : OutOfBand(u, "role", value)
  \/ Tick
  \/ Deliver

SpecStale == Init /\ [][NextStale]_vars

(* Logins, one after another, whose INSERT into the refresh ledger may    *)
(* throw, while the clock advances.                                        *)
NextFault ==
  \/ \E p \in Procs : Login(p, LoginBodies, TRUE)
  \/ \E p \in Procs : LoginStoreThrows(p)
  \/ Deliver
  \/ Tick

SpecFault == Init /\ [][NextFault]_vars

----------------------------------------------------------------------------
(* Vocabulary of the properties.  An answer is a value of last: the        *)
(* request, the locals of its handler, the response and the position the   *)
(* handler answered from ("idle": from the step of its first statement).   *)

Says(res, messageCode) ==
  res.http = 200 /\ res.code = 0 - 1 /\ res.message = MESSAGE_MAP[messageCode]

NoCookies(res) == res.access_token = NoCookie /\ res.refresh_token = NoCookie

(* The row is one the lookup of login treats as an account. *)
Account(user) == user # NullUser /\ user.is_deleted = 0

Usable(user) == Account(user) /\ user.status = 1

(* The answer of a login that ended in the checks on the row it found. *)
AnsweredByChecks(l) == l.req.op = "login" /\ l.at = "idle"

(* The answer of a login that ended at the password comparison. *)
AnsweredByCompare(l) == l.req.op = "login" /\ l.at = "login_compare"

(* The answer of a login that ran to its end. *)
AnsweredByStore(l) == l.req.op = "login" /\ l.at = "login_store"

PasswordMatches(l) == bcrypt_compare(l.req.password, l.loc.user.password_hash)

(* This step sends a response. *)
Answers == last = NoLast /\ last' # NoLast

(* The answer of a wrong-password login on a usable account. *)
WrongLogin(l) ==
  \/ AnsweredByCompare(l)
  \/ AnsweredByChecks(l) /\ Usable(l.loc.user) /\ ~PasswordMatches(l)

Min(a, b) == IF a < b THEN a ELSE b

Idle == \A p \in Procs : pc[p] = "idle"

----------------------------------------------------------------------------
----------------------------------------------------------------------------
(* C2: a login with the matching password that finds an enabled,           *)
(* non-deleted user with failed_login_count < 5 is not turned away by the  *)
(* checks; its UPDATE sets failed_login_count to 0; its last step answers  *)
(* success with an access token carrying that user's id (as sub), username *)
(* and role, and appends exactly one row to the refresh ledger, for that   *)
(* user, with revoked = 0, the hash of the refresh cookie and              *)
(* expires_at = now + (rememberMe ? long TTL : short TTL).                 *)
C2_LoginSucceeds ==
  [][ /\ ( /\ Answers /\ AnsweredByChecks(last') /\ Usable(last'.loc.user)
           /\ last'.loc.user.failed_login_count < MAX_FAILED_LOGIN )
           => ~PasswordMatches(last')
      /\ \A p \in Procs :
           ( /\ pc[p] = "login_compare" /\ pc'[p] # "login_compare"
             /\ bcrypt_compare(req[p].password, loc[p].user.password_hash) )
             => /\ pc'[p] = "login_store"
                /\ users'[loc[p].user.id].failed_login_count = 0
      /\ \A p \in Procs :
           pc[p] = "login_store" /\ pc'[p] # "login_store"
             => LET id == loc[p].user.id
                    res == last'.res
                    ttl == IF req[p].rememberMe
                             THEN REFRESH_TOKEN_EXPIRES_IN_REMEMBER
                             ELSE REFRESH_TOKEN_EXPIRES_IN
                    n == Len(user_refresh_tokens)
                IN  /\ AnsweredByStore(last')
                    /\ res.http = 200 /\ res.code = 0
                    /\ users'[id].failed_login_count = 0
                    /\ res.access_token.cookie = "set"
                    /\ res.access_token.value.sub = users[id].id
                    /\ res.access_token.value.username = users[id].username
                    /\ res.access_token.value.role = users[id].role
                    /\ res.access_token.value.key = ACCESS_TOKEN_SECRET
                    /\ res.refresh_token.cookie = "set"
                    /\ Len(user_refresh_tokens') = n + 1
                    /\ SubSeq(user_refresh_tokens', 1, n) = user_refresh_tokens
                    /\ user_refresh_tokens'[n + 1].user_id = id
                    /\ user_refresh_tokens'[n + 1].revoked = 0
                    /\ user_refresh_tokens'[n + 1].token_hash
                         = hashToken(res.refresh_token.value)
                    /\ user_refresh_tokens'[n + 1].expires_at = now + ttl
    ]_vars

(* A remember-me login succeeds after the clock has advanced; its row      *)
(* expires the long TTL from now.                                          *)
C2_Witness ==
  /\ AnsweredByStore(last) /\ last.res.code = 0
  /\ last.req.rememberMe
  /\ now > 0
  /\ user_refresh_tokens[Len(user_refresh_tokens)].expires_at
       = now + REFRESH_TOKEN_EXPIRES_IN_REMEMBER
  /\ users[last.loc.user.id].failed_login_count = 0

----------------------------------------------------------------------------
(* C3: a login with a wrong password that finds an enabled, non-deleted    *)
(* account with the counter below 5 reaches the password comparison, and   *)
(* the step of the comparison raises failed_login_count of that row by     *)
(* exactly 1 (no other column, no other row), answers InvalidCredentials,  *)
(* sets no cookie and leaves the refresh ledger as it was.                 *)
C3_WrongPasswordCounts ==
  [][ /\ ( /\ Answers /\ AnsweredByChecks(last') /\ Usable(last'.loc.user)
           /\ ~PasswordMatches(last') )
           => last'.loc.user.failed_login_count >= MAX_FAILED_LOGIN
      /\ \A p \in Procs :
           ( /\ pc[p] = "login_compare" /\ pc'[p] # "login_compare"
             /\ ~bcrypt_compare(req[p].password, loc[p].user.password_hash) )
             => LET id == loc[p].user.id
                IN  /\ users' = [users EXCEPT ![id].failed_login_count =
                                   users[id].failed_login_count + 1]
                    /\ AnsweredByCompare(last')
                    /\ Says(last'.res, "USERNAME_OR_PASSWORD_ERROR")
                    /\ NoCookies(last'.res)
                    /\ UNCHANGED <<user_refresh_tokens, minted>>
    ]_vars

(* A wrong-password login has raised the counter of its account to 3. *)
C3_Witness ==
  /\ AnsweredByCompare(last)
  /\ Says(last.res, "USERNAME_OR_PASSWORD_ERROR")
  /\ users[last.loc.user.id].failed_login_count = 3

----------------------------------------------------------------------------
(* C4: with logins that do not overlap, the counter of an account whose    *)
(* history is known (it started at 0, by registration or otherwise, or had *)
(* a successful login) equals, whenever no request is in flight, the       *)
(* number of wrong-password logins made on it since its last successful    *)
(* login, capped at 5; so the counter is at 5 only after 5 such attempts   *)
(* with no success between them, and the answer of a successful login      *)
(* finds the counter at 0.                                                 *)
C4_CountsSinceLastSuccess ==
  /\ \A u \in LiveIds :
       run[u].origin # "unknown"
         => /\ Idle => users[u].failed_login_count
                         = Min(run[u].wrong, MAX_FAILED_LOGIN)
            /\ users[u].failed_login_count >= MAX_FAILED_LOGIN
                 => run[u].wrong >= MAX_FAILED_LOGIN
  /\ AnsweredByStore(last)
       => /\ users[last.loc.user.id].failed_login_count = 0
          /\ run[last.loc.user.id] = [origin |-> "success", wrong |-> 0]

(* An account is locked by five wrong attempts made after a successful     *)
(* login.                                                                  *)
C4_Witness ==
  \E u \in LiveIds :
    /\ Idle
    /\ run[u].origin = "success" /\ run[u].wrong = MAX_FAILED_LOGIN
    /\ users[u].failed_login_count = MAX_FAILED_LOGIN

----------------------------------------------------------------------------
(* C5: with logins that do not overlap, the fifth wrong-password login     *)
(* made on an enabled account since its counter was 0 is answered          *)
(* InvalidCredentials, not AccountLocked.                                  *)
C5_FifthStillInvalidCredentials ==
  ( /\ WrongLogin(last)
    /\ run[last.loc.user.id].origin # "unknown"
    /\ run[last.loc.user.id].wrong = MAX_FAILED_LOGIN )
    => /\ Says(last.res, "USERNAME_OR_PASSWORD_ERROR")
       /\ last.res.message # MESSAGE_MAP["ACCOUNT_LOCKED"]

(* The fifth wrong attempt on an account that started at 0 is answered. *)
C5_Witness ==
  /\ WrongLogin(last)
  /\ run[last.loc.user.id] = [origin |-> "zero", wrong |-> MAX_FAILED_LOGIN]
  /\ Says(last.res, "USERNAME_OR_PASSWORD_ERROR")

----------------------------------------------------------------------------
(* C6, as claimed: with logins that do not overlap, a correct-password     *)
(* login made right after exactly five consecutive wrong-password attempts *)
(* (counter starting at 0) is not turned away: it succeeds and the counter *)
(* is 0.                                                                   *)
C6_AsClaimed ==
  ( /\ AnsweredByChecks(last) /\ Usable(last.loc.user)
    /\ PasswordMatches(last)
    /\ last.loc.prior.origin # "unknown"
    /\ last.loc.prior.wrong = MAX_FAILED_LOGIN )
    => /\ last.res.code = 0
       /\ users[last.loc.user.id].failed_login_count = 0

(* C6, amended: with logins that do not overlap, a correct-password login  *)
(* made on an enabled account after five (or more) consecutive             *)
(* wrong-password attempts is answered AccountLocked, sets no cookie and   *)
(* leaves failed_login_count at 5; a correct-password login is turned away *)
(* by the checks only then, and reaches the password comparison only after *)
(* at most four such attempts.                                             *)
C6_CorrectAfterFiveIsLocked ==
  /\ ( /\ AnsweredByChecks(last) /\ Usable(last.loc.user)
       /\ PasswordMatches(last)
       /\ last.loc.prior.origin # "unknown" )
       => /\ last.loc.prior.wrong >= MAX_FAILED_LOGIN
          /\ Says(last.res, "ACCOUNT_LOCKED")
          /\ NoCookies(last.res)
          /\ users[last.loc.user.id].failed_login_count = MAX_FAILED_LOGIN
  /\ \A p \in Procs :
       ( /\ pc[p] = "login_compare"
         /\ bcrypt_compare(req[p].password, loc[p].user.password_hash)
         /\ run[loc[p].user.id].origin # "unknown" )
         => run[loc[p].user.id].wrong < MAX_FAILED_LOGIN

(* The correct password right after exactly five wrong attempts is         *)
(* answered AccountLocked.                                                 *)
C6_Witness ==
  /\ AnsweredByChecks(last) /\ Usable(last.loc.user)
  /\ PasswordMatches(last)
  /\ last.loc.prior.origin # "unknown"
  /\ last.loc.prior.wrong = MAX_FAILED_LOGIN
  /\ Says(last.res, "ACCOUNT_LOCKED")
  /\ users[last.loc.user.id].failed_login_count = MAX_FAILED_LOGIN

----------------------------------------------------------------------------
(* C7, as claimed: with logins that do not overlap, the fifth              *)
(* wrong-password login on a freshly registered account is answered        *)
(* AccountLocked.                                                          *)
C7_AsClaimed ==
  ( /\ WrongLogin(last)
    /\ run[last.loc.user.id] = [origin |-> "register",
                                wrong |-> MAX_FAILED_LOGIN] )
    => Says(last.res, "ACCOUNT_LOCKED")

(* C7, amended: with logins that do not overlap, each of the first five    *)
(* wrong-password logins on a freshly registered account is answered       *)
(* InvalidCredentials and leaves the counter at the number of attempts     *)
(* made (the fourth failure leaves it at 4, the fifth brings it to the     *)
(* threshold 5); the sixth and later ones are answered AccountLocked and   *)
(* leave the counter at 5.                                                 *)
C7_SixthIsFirstLocked ==
  ( /\ WrongLogin(last)
    /\ run[last.loc.user.id].origin = "register" )
    => LET attempt == run[last.loc.user.id].wrong
           count == users[last.loc.user.id].failed_login_count
       IN  IF attempt <= MAX_FAILED_LOGIN
             THEN Says(last.res, "USERNAME_OR_PASSWORD_ERROR") /\ count = attempt
             ELSE Says(last.res, "ACCOUNT_LOCKED") /\ count = MAX_FAILED_LOGIN

(* The sixth wrong attempt on a freshly registered account is answered     *)
(* AccountLocked.                                                          *)
C7_Witness ==
  /\ WrongLogin(last)
  /\ run[last.loc.user.id] = [origin |-> "register",
                              wrong |-> MAX_FAILED_LOGIN + 1]
  /\ Says(last.res, "ACCOUNT_LOCKED")
  /\ users[last.loc.user.id].failed_login_count = MAX_FAILED_LOGIN

----------------------------------------------------------------------------
(* C8, as claimed: once failed_login_count of an account has reached 5, no *)
(* step of a login, refresh, logout, register or profile-update request,   *)
(* overlapping or not, lowers it.                                          *)
C8_AsClaimed ==
  [][ \A u \in LiveIds :
        users[u].failed_login_count >= MAX_FAILED_LOGIN
          => users'[u].failed_login_count >= users[u].failed_login_count
    ]_vars

(* C8, amended: once failed_login_count of an account has reached 5, no    *)
(* login that reads the row from then on passes the lockout check, and the *)
(* only step that lowers the counter is the UPDATE of a correct-password   *)
(* login that was already past the lockout check (it read the counter      *)
(* below 5 while another request was raising it), which sets it to 0; so   *)
(* while no such login is in flight, none comes to be and the counter is   *)
(* not lowered.                                                            *)
C8_OnlyInFlightLoginUnlocks ==
  [][ \A u \in LiveIds :
        users[u].failed_login_count >= MAX_FAILED_LOGIN
          => /\ \A p \in Procs :
                  pc[p] = "idle" /\ pc'[p] = "login_compare"
                    => loc'[p].user.id # u
             /\ users'[u].failed_login_count < users[u].failed_login_count
                  => /\ users'[u].failed_login_count = 0
                     /\ \E p \in Procs :
                          /\ pc[p] = "login_compare" /\ loc[p].user.id = u
                          /\ bcrypt_compare(req[p].password,
                                            loc[p].user.password_hash)
                          /\ pc'[p] = "login_store"
    ]_vars

(* The counter of an account is at 5 while a correct-password login on it  *)
(* is past the lockout check.                                              *)
C8_Witness ==
  \E u \in LiveIds, p \in Procs :
    /\ users[u].failed_login_count >= MAX_FAILED_LOGIN
    /\ pc[p] = "login_compare" /\ loc[p].user.id = u
    /\ bcrypt_compare(req[p].password, loc[p].user.password_hash)

----------------------------------------------------------------------------
(* C9: a login that finds a (non-deleted) user whose status is disabled is *)
(* answered AccountDisabled whatever the password and whatever             *)
(* failed_login_count (below, at or above 5); no login reaches the         *)
(* password comparison on a disabled row, and the answer sets no cookie    *)
(* and leaves users and the refresh ledger as they were.                   *)
C9_DisabledBeforeLockout ==
  [][ /\ \A p \in Procs :
           pc[p] = "idle" /\ pc'[p] = "login_compare"
             => users[loc'[p].user.id].status = 1
      /\ ( /\ Answers /\ AnsweredByChecks(last') /\ Account(last'.loc.user)
           /\ last'.loc.user.status = 0 )
           => /\ Says(last'.res, "ACCOUNT_DISABLED")
              /\ NoCookies(last'.res)
              /\ UNCHANGED <<users, user_refresh_tokens>>
    ]_vars

(* A login with the correct password on a disabled user whose counter is   *)
(* at the threshold is answered AccountDisabled.                           *)
C9_Witness ==
  /\ AnsweredByChecks(last) /\ Account(last.loc.user)
  /\ last.loc.user.status = 0
  /\ last.loc.user.failed_login_count = MAX_FAILED_LOGIN
  /\ PasswordMatches(last)
  /\ Says(last.res, "ACCOUNT_DISABLED")

----------------------------------------------------------------------------
(* C10: a login that names a username with no row, or finds a soft-deleted *)
(* row, and a wrong-password login on an enabled, unlocked user get one    *)
(* and the same response: HTTP status, code, message, data and (unset)     *)
(* cookies all equal those of CredentialsRejected.                         *)
CredentialsRejected ==
  [ http |-> 200, code |-> 0 - 1,
    message |-> MESSAGE_MAP["USERNAME_OR_PASSWORD_ERROR"],
    data |-> NoData, access_token |-> NoCookie, refresh_token |-> NoCookie ]

NoSuchUser(l) ==
  /\ AnsweredByChecks(l)
  /\ l.req.username # Missing /\ l.req.password # Missing
  /\ l.loc.user = NullUser \/ l.loc.user.is_deleted = 1

C10_AbsentLikeWrongPassword ==
  NoSuchUser(last) \/ AnsweredByCompare(last) => last.res = CredentialsRejected

(* A login with the correct password of a soft-deleted user is answered. *)
C10_Witness ==
  /\ NoSuchUser(last)
  /\ last.loc.user # NullUser /\ PasswordMatches(last)
  /\ last.res = CredentialsRejected

----------------------------------------------------------------------------
(* C11, as claimed: a login is never turned away by the checks while the   *)
(* non-deleted user of that username is enabled, below the lockout         *)
(* threshold and has the password presented, whether or not a soft-deleted *)
(* row with the same username exists.                                      *)
C11_AsClaimed ==
  ( /\ AnsweredByChecks(last)
    /\ last.req.username # Missing /\ last.req.password # Missing )
    => ~ \E i \in LiveIds :
           /\ users[i].username = last.req.username
           /\ users[i].is_deleted = 0 /\ users[i].status = 1
           /\ users[i].failed_login_count < MAX_FAILED_LOGIN
           /\ bcrypt_compare(last.req.password, users[i].password_hash)

----------------------------------------------------------------------------
(* Vocabulary of the refresh ledger. *)

(* The ledger rows of a raw refresh secret. *)
RowsOf(refreshTokenRaw) ==
  {i \in 1..Len(user_refresh_tokens) :
     user_refresh_tokens[i].token_hash = hashToken(refreshTokenRaw)}

(* A row a refresh may use: not revoked and not yet expired. *)
UsableRow(row) == row.revoked = 0 /\ row.expires_at > now

AnsweredRefresh(l) == l.req.op = "refresh"

AnsweredLogout(l) == l.req.op = "logout"

BothCleared(res) ==
  res.access_token = ClearedCookie /\ res.refresh_token = ClearedCookie

----------------------------------------------------------------------------
(* C12: a refresh that presents a secret with no ledger row, with a        *)
(* revoked row, or with a row whose expires_at <= now is answered 401,     *)
(* sets no access_token cookie, signs no token, and leaves every ledger    *)
(* row and every user row as it was.                                       *)
C12_UnusableTokenRejected ==
  [][ ( /\ Answers /\ AnsweredRefresh(last')
        /\ last'.req.refresh_token # NoToken
        /\ \A i \in RowsOf(last'.req.refresh_token) :
             ~UsableRow(user_refresh_tokens[i]) )
        => /\ last'.res.http = 401 /\ last'.res.code = 401
           /\ last'.res.access_token.cookie # "set"
           /\ UNCHANGED <<users, user_refresh_tokens, minted>>
    ]_vars

(* A refresh with a token that was never revoked is answered 401 at the    *)
(* instant of its expiry.                                                  *)
C12_Witness ==
  /\ AnsweredRefresh(last) /\ last.res.http = 401
  /\ \E i \in RowsOf(last.req.refresh_token) :
       /\ user_refresh_tokens[i].revoked = 0
       /\ user_refresh_tokens[i].expires_at = now

----------------------------------------------------------------------------
----------------------------------------------------------------------------
(* C14: no step removes a ledger row or changes its token_hash, user_id or *)
(* expires_at; revoked only goes from 0 to 1; the clock does not go back.  *)
(* So a row that is revoked or expired stays so, and a refresh that        *)
(* presents the secret of such a row is answered 401 and sets no cookie,   *)
(* whatever requests were served since the revocation or the expiry.       *)
C14_RevokedOrExpiredForGood ==
  [][ /\ now' >= now
      /\ Len(user_refresh_tokens') >= Len(user_refresh_tokens)
      /\ \A i \in 1..Len(user_refresh_tokens) :
           LET row == user_refresh_tokens[i]
               next == user_refresh_tokens'[i]
           IN  /\ next.token_hash = row.token_hash
               /\ next.user_id = row.user_id
               /\ next.expires_at = row.expires_at
               /\ next.revoked >= row.revoked
               /\ (row.revoked = 1 \/ row.expires_at <= now)
                    => (next.revoked = 1 \/ next.expires_at <= now')
      /\ ( /\ Answers /\ AnsweredRefresh(last')
           /\ RowsOf(last'.req.refresh_token) # {}
           /\ \A i \in RowsOf(last'.req.refresh_token) :
                \/ user_refresh_tokens[i].revoked = 1
                \/ user_refresh_tokens[i].expires_at <= now )
           => /\ last'.res.http = 401
              /\ last'.res.access_token.cookie # "set"
              /\ last'.res.refresh_token.cookie # "set"
    ]_vars

(* A refresh with the secret of a revoked, unexpired session is answered   *)
(* 401 after a later login has opened another session.                     *)
C14_Witness ==
  /\ AnsweredRefresh(last) /\ last.res.http = 401
  /\ \E i \in RowsOf(last.req.refresh_token) :
       /\ user_refresh_tokens[i].revoked = 1
       /\ user_refresh_tokens[i].expires_at > now
       /\ i < Len(user_refresh_tokens)

----------------------------------------------------------------------------
(* C15: every logout is answered success (HTTP 200, code 0), with a known, *)
(* an unknown, an already-revoked or no secret, and also when its          *)
(* statement throws.  A logout whose statement executes leaves every row   *)
(* of the presented secret revoked and every other row as it was; a logout *)
(* that finds no unrevoked row of the presented secret, the second of two  *)
(* logouts with the same secret included, leaves the ledger as it was.     *)
C15_LogoutIdempotent ==
  [][ ( Answers /\ AnsweredLogout(last') )
        => LET t == last'.req.refresh_token
               mine == IF t = NoToken THEN {} ELSE RowsOf(t)
           IN  /\ last'.res.http = 200 /\ last'.res.code = 0
               /\ last'.res.message = MESSAGE_MAP["LOGOUT_SUCCESS"]
               /\ Len(user_refresh_tokens') = Len(user_refresh_tokens)
               /\ \A i \in 1..Len(user_refresh_tokens) :
                    i \notin mine
                      => user_refresh_tokens'[i] = user_refresh_tokens[i]
               /\ last'.req.outcome # "failed"
                    => \A i \in mine : user_refresh_tokens'[i].revoked = 1
               /\ (\A i \in mine : user_refresh_tokens[i].revoked = 1)
                    => user_refresh_tokens' = user_refresh_tokens
               /\ UNCHANGED <<users, minted>>
    ]_vars

(* A logout with the secret of a session that an earlier logout revoked:   *)
(* its UPDATE changes no row and it is answered success.                   *)
C15_Witness ==
  /\ AnsweredLogout(last) /\ last.req.outcome = "ok"
  /\ RowsOf(last.req.refresh_token) # {}
  /\ last.loc.affectedRows = 0
  /\ last.res.code = 0

----------------------------------------------------------------------------
(* C16, as claimed: every answer of POST /logout is HTTP 200 success and   *)
(* clears both the access_token and the refresh_token cookie, also when    *)
(* the revocation statement throws.                                        *)
C16_AsClaimed ==
  AnsweredLogout(last)
    => /\ last.res.http = 200 /\ last.res.code = 0
       /\ BothCleared(last.res)

----------------------------------------------------------------------------
(* C17, as claimed: every 401 answer of POST /refresh-token clears both    *)
(* auth cookies.                                                           *)
C17_AsClaimed ==
  AnsweredRefresh(last) /\ last.res.http = 401 => BothCleared(last.res)

(* C17, amended: a 401 answer of POST /refresh-token to a refresh cookie   *)
(* that is unknown, revoked or expired clears both auth cookies in the     *)
(* same response; the 401 answer to a request without refresh cookie       *)
(* neither sets nor clears a cookie.                                       *)
C17_ClearsUnlessMissing ==
  AnsweredRefresh(last) /\ last.res.http = 401
    => IF last.req.refresh_token = NoToken
         THEN NoCookies(last.res)
         ELSE BothCleared(last.res)

(* A refresh with the secret of a revoked session is answered 401 and      *)
(* clears both cookies.                                                    *)
C17_Witness ==
  /\ AnsweredRefresh(last) /\ last.res.http = 401
  /\ \E i \in RowsOf(last.req.refresh_token) :
       user_refresh_tokens[i].revoked = 1
  /\ BothCleared(last.res)

----------------------------------------------------------------------------
(* Vocabulary of the gates *)

(* The request went through authMiddleware. *)
Gated(l) == l.req.op \in {"profile_update", "admin_only"}

(* The answer was produced before the handler's first statement. *)
AnsweredAtEntry(l) == Gated(l) /\ l.at = "idle"

(* A token the server signed and that has not expired. *)
Verifies(token) ==
  token # NoAccess /\ token.key = ACCESS_TOKEN_SECRET /\ now < token.exp

Unauthenticated(res) == res.http = 401 /\ res.code = 401

(* Nothing after authMiddleware ran: no locals were made. *)
HandlerNotRun(l) == l.loc = NoLoc

(* What ran after authMiddleware saw this token's payload as req.user. *)
RanAs(l, token) ==
  /\ l.loc # NoLoc
  /\ l.loc.principal = [id |-> token.sub, username |-> token.username,
                        role |-> token.role]

----------------------------------------------------------------------------
(* C18: the authentication gate answers 401 without running the handler   *)
(* when the access cookie is missing, and when the token is forged or     *)
(* expired; for a verified token it lets the next handler run with the    *)
(* principal {id, username, role} of the token's payload.  A request has   *)
(* exactly one of the three outcomes, a rejection changes no row, and a    *)
(* handler that is past its first statement was let in by a verified      *)
(* token of the user it works on.                                         *)
C18_GateOutcomes ==
  [][ /\ Answers /\ AnsweredAtEntry(last') =>
          LET token == last'.req.access_token
          IN  /\ token = NoAccess =>
                   /\ Unauthenticated(last'.res) /\ HandlerNotRun(last')
                   /\ db' = db
              /\ token # NoAccess /\ ~Verifies(token) =>
                   /\ Unauthenticated(last'.res) /\ HandlerNotRun(last')
                   /\ db' = db
              /\ Verifies(token) =>
                   /\ RanAs(last', token)
                   /\ ~Unauthenticated(last'.res)
      /\ \A p \in Procs :
           pc[p] = "idle" /\ pc'[p] \in { "pu_check_username",
                                         "pu_check_email", "pu_update" } =>
             \E token \in minted :
               Verifies(token) /\ token.sub = loc'[p].user.id
    ]_vars

(* An access token the server signed is presented after it expired and is *)
(* turned away.                                                           *)
C18_Witness ==
  /\ AnsweredAtEntry(last)
  /\ last.req.access_token \in minted
  /\ now >= last.req.access_token.exp
  /\ Unauthenticated(last.res) /\ HandlerNotRun(last)

----------------------------------------------------------------------------
(* C19: what the authentication gate decides for a token, and the         *)
(* principal it attaches, are determined by the token, the signing key    *)
(* and the clock.  No step that leaves the clock alone (a logout or a     *)
(* refresh, a login, a profile update, a user disabled, soft-deleted or   *)
(* given another role) changes the gate's answer to any token that could  *)
(* be presented, and a request with an unexpired signed token is let in   *)
(* as the principal of the payload whatever the rows say.                 *)
C19_GateReadsNoRow ==
  [][ /\ now' = now =>
          \A token \in AccessCookies :
            authMiddleware(token)' = authMiddleware(token)
      /\ Answers /\ AnsweredAtEntry(last') =>
          LET token == last'.req.access_token
          IN  token \in minted /\ now' < token.exp =>
                /\ RanAs(last', token)
                /\ last'.loc.principal.id = token.sub
                /\ ~Unauthenticated(last'.res)
    ]_vars

(* The gate lets in the bearer of an unexpired token although the session *)
(* it came from is revoked and the user has since been renamed, disabled, *)
(* soft-deleted and given another role.                                   *)
C19_Witness ==
  /\ AnsweredAtEntry(last)
  /\ last.req.access_token \in minted
  /\ LET token == last.req.access_token
         user == users[token.sub]
     IN  /\ RanAs(last, token)
         /\ user.status = 0 /\ user.is_deleted = 1
         /\ user.role # token.role
         /\ user.username # token.username
         /\ \E i \in 1..Len(user_refresh_tokens) :
              user_refresh_tokens[i].user_id = token.sub
         /\ \A i \in 1..Len(user_refresh_tokens) :
              user_refresh_tokens[i].user_id = token.sub =>
                user_refresh_tokens[i].revoked = 1

----------------------------------------------------------------------------
(* Vocabulary of the role gate *)

Roles == {"admin", "user"}

(* The values req.user can have when the role gate runs. *)
Principals == {NoPrincipal} \cup { Principal(token) : token \in minted }

Forbidden(res) == res.http = 403 /\ res.code = 403

(* C20: the role gate answers 401 when no principal is attached, 403 when *)
(* the principal's role is not among the required roles, and otherwise    *)
(* lets the next handler run.  Its decision is that of the required roles *)
(* and the principal alone: no step changes it, and a request stopped or  *)
(* let through by it leaves every row, the clock and the tokens as they   *)
(* were.                                                                   *)
C20_RoleGate ==
  [][ /\ \A requiredRoles \in SUBSET Roles, user \in Principals :
           /\ user = NoPrincipal =>
                Unauthenticated(requireRole(requiredRoles, user))
           /\ user # NoPrincipal /\ user.role \notin requiredRoles =>
                Forbidden(requireRole(requiredRoles, user))
           /\ user # NoPrincipal /\ user.role \in requiredRoles =>
                requireRole(requiredRoles, user) = NoResponse
           /\ requireRole(requiredRoles, user)' =
                requireRole(requiredRoles, user)
      /\ Answers /\ last'.req.op = "admin_only"
           /\ Verifies(last'.req.access_token) =>
           /\ last'.req.access_token.role # "admin" =>
                Forbidden(last'.res)
           /\ last'.req.access_token.role = "admin" =>
                last'.res = success("SUCCESS", NoData, "welcome, admin")
           /\ UNCHANGED <<db, now, minted>>
    ]_vars

(* A signed, unexpired token of an ordinary user is stopped by the role   *)
(* gate of /admin-only.                                                   *)
C20_Witness ==
  /\ last.req.op = "admin_only"
  /\ Verifies(last.req.access_token)
  /\ last.req.access_token.role = "user"
  /\ Forbidden(last.res)

----------------------------------------------------------------------------
(* Vocabulary of the role-gated routes *)

AdminOps == { "admin_only", "record_type_create", "record_type_update",
              "record_type_delete" }

(* C21: the handlers of GET /admin-only and of POST, PUT and DELETE       *)
(* /admin/record-types run only for a verified access token whose role is *)
(* admin.  A request without a token or with an invalid one is answered   *)
(* 401, a request with a verified token of another role 403, and neither  *)
(* writes to the database; only an administrator's request changes the    *)
(* record types.                                                          *)
C21_AdminRoutesGuarded ==
  [][ /\ Answers /\ last'.req.op \in AdminOps =>
          LET token == last'.req.access_token
          IN  /\ ~Verifies(token) =>
                   /\ Unauthenticated(last'.res) /\ HandlerNotRun(last')
                   /\ UNCHANGED <<db, book>>
              /\ Verifies(token) /\ token.role # "admin" =>
                   /\ Forbidden(last'.res)
                   /\ UNCHANGED <<db, book>>
              /\ last'.res.http = 200 =>
                   Verifies(token) /\ token.role = "admin"
      /\ fs_record_types' # fs_record_types =>
           /\ last'.req.op \in AdminOps
           /\ Verifies(last'.req.access_token)
           /\ last'.req.access_token.role = "admin"
    ]_vars

(* An ordinary user's verified token is turned away from the creation of  *)
(* a record type, and no record type exists.                              *)
C21_Witness ==
  /\ last.req.op = "record_type_create"
  /\ last.req.code # Missing
  /\ Verifies(last.req.access_token)
  /\ last.req.access_token.role = "user"
  /\ Forbidden(last.res)
  /\ fs_record_types = <<>>

----------------------------------------------------------------------------
(* The routes of the auth router that are mounted without a gate. *)
OpenRoutes ==
  {"POST /register", "POST /login", "POST /logout", "POST /refresh-token"}

(* C22: a request to POST /register, /login, /logout or /refresh-token    *)
(* reaches its handler whatever access cookie it carries (none, a forged, *)
(* an expired or a valid one): no gate runs on it and no principal is     *)
(* attached, although the routers mounted after the auth router turn away *)
(* every request without a valid token that gets to them.                 *)
C22_OpenRoutesReachHandlers ==
  /\ \A route \in OpenRoutes, token \in AccessCookies :
        Dispatch(route, token) = Reached(route, NoPrincipal)
  /\ \A route \in {"POST /records", "GET /record-types", "GET /categories",
                    "GET /tags", "POST /no-such-route"} :
        /\ Unauthenticated(Dispatch(route, NoAccess).rejection)
        /\ Unauthenticated(Dispatch(route, ForgedToken).rejection)
  /\ last.req.op \in {"login", "register"} => ~Unauthenticated(last.res)

(* A user signs up and logs in without an access cookie, while a request *)
(* for the records without one is turned away.                            *)
C22_Witness ==
  /\ AnsweredByStore(last)
  /\ last.loc.user.username = "bob"
  /\ last.res.http = 200 /\ last.res.code = 0
  /\ last.res.access_token # NoCookie
  /\ Unauthenticated(Dispatch("POST /records", NoAccess).rejection)

----------------------------------------------------------------------------
(* C23: the body code of every response is 0 or -1 when the HTTP status   *)
(* is 200, and is the HTTP status itself otherwise; there is no other     *)
(* combination.                                                            *)
C23_CodeFollowsStatus ==
  last # NoLast =>
    \/ last.res.http = 200 /\ last.res.code \in {0, 0 - 1}
    \/ last.res.http # 200 /\ last.res.code = last.res.http

(* A handler whose statement threw answers status 500 with code 500. *)
C23_Witness ==
  /\ last.req.op = "record_create"
  /\ last.req.failAt = "insert"
  /\ last.res.http = 500 /\ last.res.code = 500

----------------------------------------------------------------------------
(* Vocabulary of the login answers *)

BusinessFailure(res) == res.http = 200 /\ res.code = 0 - 1

FieldsGiven(l) == l.req.username # Missing /\ l.req.password # Missing

(* What the checks of login found: no account, a disabled one, a locked   *)
(* one.                                                                    *)
FoundNone(l) == AnsweredByChecks(l) /\ FieldsGiven(l) /\ ~Account(l.loc.user)

FoundDisabled(l) ==
  /\ AnsweredByChecks(l) /\ FieldsGiven(l)
  /\ Account(l.loc.user) /\ l.loc.user.status = 0

FoundLocked(l) ==
  /\ AnsweredByChecks(l) /\ FieldsGiven(l)
  /\ Usable(l.loc.user)
  /\ l.loc.user.failed_login_count >= MAX_FAILED_LOGIN

BothSet(res) ==
  /\ res.access_token \notin {NoCookie, ClearedCookie}
  /\ res.refresh_token \notin {NoCookie, ClearedCookie}

----------------------------------------------------------------------------
----------------------------------------------------------------------------
(* C26: a registration creates its user with role user, enabled, with     *)
(* failed_login_count 0 and not deleted, also when the body asks for the  *)
(* role admin, and says so in its answer; no request (register, login,    *)
(* refresh, logout, profile update) creates a user in another way or      *)
(* changes the role of an existing user.                                  *)
C26_RegisterCreatesPlainUsers ==
  [][ /\ Len(users') >= Len(users)
      /\ \A u \in 1..Len(users) : users'[u].role = users[u].role
      /\ \A u \in (Len(users) + 1)..Len(users') :
           /\ users'[u].role = "user" /\ users'[u].status = 1
           /\ users'[u].failed_login_count = 0 /\ users'[u].is_deleted = 0
           /\ last'.req.op = "register"
           /\ last'.res.data.user.role = "user"
           /\ last'.res.data.user.id = u
    ]_vars

(* A registration whose body asks for the role admin has succeeded while  *)
(* an administrator exists.                                               *)
C26_Witness ==
  /\ last.req.op = "register"
  /\ last.req.role = "admin"
  /\ last.res.code = 0
  /\ Len(users) = 2
  /\ users[1].role = "admin" /\ users[2].role = "user"

----------------------------------------------------------------------------
----------------------------------------------------------------------------
(* What the pre-check of register answers when it finds a row. *)
PreCheckAnswers(username, email) ==
  { IF users[i].username = username THEN fail("USERNAME_EXISTS")
                                    ELSE fail("EMAIL_EXISTS") :
      i \in SelectExisted(username, email) }

(* The business failures that say that a name or an email is taken. *)
TakenMessages ==
  { MESSAGE_MAP["USERNAME_EXISTS"], MESSAGE_MAP["EMAIL_EXISTS"],
    MESSAGE_MAP["USERNAME_OR_EMAIL_EXISTS"] }

(* C28: a registration that passed the pre-check and whose INSERT hits    *)
(* the duplicate key, because a registration that overlapped it took the  *)
(* username or the email, creates no row and answers as the pre-check     *)
(* would now: the same HTTP status, the same code (-1), no data, and a    *)
(* message of the same kind (the name or email is taken, here the one     *)
(* that names both).                                                      *)
C28_RaceAnsweredLikePreCheck ==
  [][ /\ Answers
      /\ last'.req.op = "register" /\ last'.at = "register_insert"
      /\ last'.res.code # 0
      => LET rq == last'.req
         IN  /\ users' = users
             /\ PreCheckAnswers(rq.username, rq.email) # {}
             /\ last'.res.message = MESSAGE_MAP["USERNAME_OR_EMAIL_EXISTS"]
             /\ \A pre \in PreCheckAnswers(rq.username, rq.email) :
                  /\ pre.http = last'.res.http
                  /\ pre.code = last'.res.code
                  /\ pre.data = last'.res.data
                  /\ {pre.message, last'.res.message} \subseteq TakenMessages
    ]_vars

(* Of two overlapping registrations of one username the second was        *)
(* stopped at its INSERT; there is one user.                              *)
C28_Witness ==
  /\ last.req.op = "register" /\ last.at = "register_insert"
  /\ BusinessFailure(last.res)
  /\ Len(users) = 1
  /\ users[1].username = last.req.username

----------------------------------------------------------------------------
(* A login whose INSERT into the refresh ledger threw. *)
StoreThrew(l) ==
  l.req.op = "login" /\ l.at = "login_store" /\ l.res.http = 500

(* C29 as claimed: the counter reset and the ledger insert of a login     *)
(* take effect together or not at all: when the insert fails and the      *)
(* login answers 500, the row of the user is as the login found it, the   *)
(* ledger has no new row and no cookie is set.                             *)
C29_AsClaimed ==
  [][ Answers /\ StoreThrew(last')
      => /\ users'[last'.loc.user.id] = last'.loc.overwritten
         /\ user_refresh_tokens' = user_refresh_tokens
         /\ NoCookies(last'.res)
    ]_vars

(* C29: when the ledger insert of a login fails, the login answers 500    *)
(* with the generic server error, sets no cookie, stores no ledger row    *)
(* and issues no token, but the UPDATE that preceded the insert stays:    *)
(* failed_login_count is 0 and last_login_at is the time of the UPDATE,   *)
(* every other column as the login found it.                               *)
C29_ResetOutlivesFailedStore ==
  [][ Answers /\ StoreThrew(last')
      => LET id == last'.loc.user.id
             found == last'.loc.overwritten
         IN  /\ last'.res = httpError(500, "INTERNAL_SERVER_ERROR", NoCustom)
             /\ NoCookies(last'.res)
             /\ user_refresh_tokens' = user_refresh_tokens
             /\ minted' = minted
             /\ users' = users
             /\ users'[id].failed_login_count = 0
             /\ users'[id].last_login_at \in 0..now
             /\ \E t \in 0..now :
                  users'[id] = [found EXCEPT !.failed_login_count = 0,
                                             !.last_login_at = t]
    ]_vars

(* A login with the right password found the counter above 0; its ledger  *)
(* insert threw, the counter is 0 and the ledger is empty.                 *)
C29_Witness ==
  /\ StoreThrew(last)
  /\ last.loc.overwritten.failed_login_count > 0
  /\ users[last.loc.user.id].failed_login_count = 0
  /\ user_refresh_tokens = <<>>

----------------------------------------------------------------------------
RecordOps == {"record_create", "record_update", "record_delete"}

(* A record handler that got past the authentication gate. *)
RecordExit(l) ==
  l.req.op \in RecordOps /\ l.loc # NoLoc /\ "conn" \in DOMAIN l.loc

----------------------------------------------------------------------------
(* The wrong-password logins on account u that passed the lockout check   *)
(* and have not issued their UPDATE yet.                                   *)
InFlightWrong(u) ==
  { p \in Procs : /\ pc[p] = "login_compare" /\ loc[p].user.id = u
                  /\ ~bcrypt_compare(req[p].password,
                                     loc[p].user.password_hash) }

(* C31: when wrong-password logins on one account overlap, each of them   *)
(* that read failed_login_count below 5 goes on to raise the stored       *)
(* counter by 1, whatever the counter has become meanwhile, so the stored *)
(* counter can pass 5; on an account whose history is known the counter   *)
(* plus the increments still to come never exceeds 5 by more than the     *)
(* number of requests that can overlap minus one.                          *)
C31_OvershootBounded ==
  /\ [](\A u \in LiveIds :
          run[u].origin # "unknown"
            => users[u].failed_login_count + Cardinality(InFlightWrong(u))
                 <= MAX_FAILED_LOGIN + MaxProcs - 1)
  /\ [][ \A p \in Procs :
           \A u \in LiveIds :
             p \in InFlightWrong(u) /\ pc'[p] # "login_compare"
               => users'[u].failed_login_count
                    = users[u].failed_login_count + 1
     ]_vars

(* Two wrong-password logins overlapped on an account that started at 0:  *)
(* the second has just raised the counter past 5.                          *)
C31_Witness ==
  /\ AnsweredByCompare(last) /\ ~PasswordMatches(last)
  /\ run[last.loc.user.id].origin = "zero"
  /\ users[last.loc.user.id].failed_login_count = MAX_FAILED_LOGIN + 1

----------------------------------------------------------------------------
(* C32: no increment is lost when wrong-password logins overlap.  On an   *)
(* account that started at 0 and has had no successful login, the stored  *)
(* counter plus the increments of the logins still in flight never        *)
(* exceeds the number of wrong-password logins made, and equals it as     *)
(* long as the counter is below 5 (none of them was turned away by the    *)
(* lockout check): after n of them complete, the counter is n.             *)
C32_NoIncrementLost ==
  \A u \in LiveIds :
    run[u].origin \in {"zero", "register"}
      => LET pending == Cardinality(InFlightWrong(u))
             stored == users[u].failed_login_count
         IN  /\ stored + pending <= run[u].wrong
             /\ stored < MAX_FAILED_LOGIN => stored + pending = run[u].wrong

(* Of two overlapping wrong-password logins on an account at 0 the first  *)
(* has raised the counter to 1, the second is still in flight.            *)
C32_Witness ==
  /\ AnsweredByCompare(last) /\ ~PasswordMatches(last)
  /\ InFlightWrong(last.loc.user.id) # {}
  /\ run[last.loc.user.id] = [origin |-> "zero", wrong |-> 2]
  /\ users[last.loc.user.id].failed_login_count = 1

----------------------------------------------------------------------------
(* The ledger rows a step changed. *)
ChangedRows ==
  { i \in 1..Len(user_refresh_tokens) :
      user_refresh_tokens'[i] # user_refresh_tokens[i] }

(* C33: a logout with token t adds and removes no ledger row and changes  *)
(* at most one: the row whose token_hash is the hash of t, in which it    *)
(* sets revoked only.  Every other row, the other sessions of the same    *)
(* user included, is as usable after the logout as before, and no user    *)
(* row changes.                                                            *)
C33_LogoutTouchesOneRow ==
  [][ Answers /\ last'.req.op = "logout"
      => /\ users' = users
         /\ Len(user_refresh_tokens') = Len(user_refresh_tokens)
         /\ Cardinality(ChangedRows) <= 1
         /\ \A i \in 1..Len(user_refresh_tokens) :
              LET row == user_refresh_tokens[i]
              IN  IF i \in ChangedRows
                    THEN /\ row.token_hash
                              = <<"sha256", last'.req.refresh_token>>
                         /\ user_refresh_tokens'[i]
                              = [row EXCEPT !.revoked = 1]
                    ELSE UsableRow(user_refresh_tokens'[i]) <=> UsableRow(row)
    ]_vars

(* A user with two open sessions logged out of one: that row is revoked,  *)
(* the other session is still usable.                                      *)
C33_Witness ==
  /\ last.req.op = "logout" /\ last.loc.affectedRows = 1
  /\ Len(user_refresh_tokens) = 2
  /\ user_refresh_tokens[1].user_id = user_refresh_tokens[2].user_id
  /\ \E i, j \in 1..2 :
       /\ user_refresh_tokens[i].token_hash
            = <<"sha256", last.req.refresh_token>>
       /\ user_refresh_tokens[i].revoked = 1
       /\ j # i /\ UsableRow(user_refresh_tokens[j])

----------------------------------------------------------------------------
(* C34: the refresh ledger grows only by the step in which a login        *)
(* answers success, and then by exactly one row: not revoked, of the user *)
(* whose password the login verified, with the hash of the secret the     *)
(* answer puts in the refresh_token cookie.  No other step (register, a   *)
(* login that is turned away, refresh-token, logout) adds or removes a    *)
(* row.                                                                    *)
C34_OnlyLoginInserts ==
  [][ LET n == Len(user_refresh_tokens)
          succeeded == /\ Answers /\ AnsweredByStore(last')
                       /\ last'.res.code = 0
      IN  /\ succeeded
               => /\ Len(user_refresh_tokens') = n + 1
                  /\ user_refresh_tokens'[n + 1].revoked = 0
                  /\ user_refresh_tokens'[n + 1].user_id = last'.loc.user.id
                  /\ user_refresh_tokens'[n + 1].user_id
                       = last'.res.data.user.id
                  /\ last'.res.refresh_token.cookie = "set"
                  /\ user_refresh_tokens'[n + 1].token_hash
                       = <<"sha256", last'.res.refresh_token.value>>
                  /\ \A i \in 1..n :
                       user_refresh_tokens'[i] = user_refresh_tokens[i]
          /\ ~succeeded => Len(user_refresh_tokens') = n
    ]_vars

(* After a registration, a wrong-password login, a login, a refresh and a *)
(* logout the ledger holds the one row of the login.                       *)
C34_Witness ==
  /\ last.req.op = "logout" /\ last.loc.affectedRows = 1
  /\ Len(user_refresh_tokens) = 1
  /\ Len(users) = 2
  /\ \E u \in LiveIds : users[u].failed_login_count > 0
  /\ Cardinality(minted) = 2

----------------------------------------------------------------------------
(* The ledger rows that refresh-token accepts for secret t. *)
UsableRowsOf(t) ==
  { i \in 1..Len(user_refresh_tokens) :
      /\ user_refresh_tokens[i].token_hash = <<"sha256", t>>
      /\ UsableRow(user_refresh_tokens[i])
      /\ user_refresh_tokens[i].user_id \in LiveIds }

(* C35: a refresh with a token whose ledger row is not revoked and not    *)
(* expired succeeds and sets a newly minted access token, whether the     *)
(* user of the row is disabled, soft-deleted or locked at that moment;    *)
(* the claims of the token are the id of the row's user and the username  *)
(* and role stored for that user at the time of the refresh.               *)
C35_RefreshIgnoresUserState ==
  [][ Answers /\ last'.req.op = "refresh"
      => \A i \in UsableRowsOf(last'.req.refresh_token) :
           LET u == user_refresh_tokens[i].user_id
               token == last'.res.access_token
           IN  /\ last'.res.http = 200 /\ last'.res.code = 0
               /\ token.cookie = "set"
               /\ token.value \in minted'
               /\ token.value.sub = u
               /\ token.value.username = users[u].username
               /\ token.value.role = users[u].role
               /\ token.value.exp = now + ACCESS_TOKEN_EXPIRES_IN
    ]_vars

(* A session opened by an administrator is refreshed after the user was   *)
(* made a plain user, disabled and soft-deleted and after five wrong      *)
(* passwords locked the account: the refresh succeeds, with role user.    *)
C35_Witness ==
  /\ last.req.op = "refresh" /\ last.res.code = 0
  /\ LET u == last.res.access_token.value.sub
     IN  /\ users[u].status = 0
         /\ users[u].is_deleted = 1
         /\ users[u].failed_login_count >= MAX_FAILED_LOGIN
         /\ run[u].origin = "success"
         /\ users[u].role = "user"
         /\ last.res.access_token.value.role = "user"

----------------------------------------------------------------------------
(* The row a login found is one its checks turn away. *)
TurnedAway(user) ==
  \/ user = NullUser
  \/ user.is_deleted = 1
  \/ user.status = 0
  \/ user.failed_login_count >= MAX_FAILED_LOGIN

(* C36: a login that lacks a field, or finds no user, a soft-deleted      *)
(* user, a disabled or a locked account, is answered by the checks in the *)
(* step of its lookup, and that step writes nothing: the users            *)
(* (failed_login_count and last_login_at included), the refresh ledger    *)
(* and the set of issued tokens are as before and no cookie is set.  Only *)
(* a login that found a usable, unlocked account goes on to the password  *)
(* comparison.                                                             *)
C36_RejectedLoginWritesNothing ==
  [][ /\ Answers /\ AnsweredByChecks(last')
        => /\ ~FieldsGiven(last') \/ TurnedAway(last'.loc.user)
           /\ BusinessFailure(last'.res)
           /\ NoCookies(last'.res)
           /\ UNCHANGED <<users, user_refresh_tokens, minted, book>>
      /\ \A p \in Procs :
           pc[p] = "idle" /\ pc'[p] = "login_compare"
             => /\ ~TurnedAway(users[loc'[p].user.id])
                /\ req'[p].password # Missing
                /\ UNCHANGED <<users, user_refresh_tokens, minted, book>>
    ]_vars

(* A user who logged in before and then locked the account is turned away *)
(* with the right password: counter, last login and ledger are intact.    *)
C36_Witness ==
  /\ AnsweredByChecks(last) /\ PasswordMatches(last)
  /\ Says(last.res, "ACCOUNT_LOCKED")
  /\ users[last.loc.user.id].failed_login_count = MAX_FAILED_LOGIN
  /\ users[last.loc.user.id].last_login_at >= 0
  /\ Len(user_refresh_tokens) = 1

----------------------------------------------------------------------------
(* C37: while logins on one account do not overlap, failed_login_count of *)
(* an account whose history is known (it started at 0 or had a successful *)
(* login) is within 0..5 in every state, and no step raises a counter     *)
(* that is at 5 or above, whatever the history of the account.            *)
C37_CounterWithinThreshold ==
  /\ [](\A u \in LiveIds :
          run[u].origin # "unknown"
            => users[u].failed_login_count \in 0..MAX_FAILED_LOGIN)
  /\ [][ \A u \in LiveIds :
           users'[u].failed_login_count > users[u].failed_login_count
             => users[u].failed_login_count < MAX_FAILED_LOGIN
     ]_vars

(* The sixth wrong password in a row on an account that started at 0,     *)
(* sent while another request is in flight, finds the counter at 5 and    *)
(* leaves it there.                                                        *)
C37_Witness ==
  /\ AnsweredByChecks(last) /\ ~PasswordMatches(last)
  /\ Says(last.res, "ACCOUNT_LOCKED")
  /\ run[last.loc.user.id] = [origin |-> "zero", wrong |-> MAX_FAILED_LOGIN + 1]
  /\ users[last.loc.user.id].failed_login_count = MAX_FAILED_LOGIN
  /\ \E q \in Procs : pc[q] \notin {"idle", "login_compare", "login_store"}

====
